---------------------------- MODULE Spec2Model ----------------------------
(***************************************************************************)
(* The Intcode virtual machine of src/bin/day15.rs (and its earlier forms  *)
(* in day07.rs and day11.rs): sparse memory, decoder, execution engine,    *)
(* the four mpsc channels of an instance, the IntcodeComputer handle, and  *)
(* the drivers built on it (pipeline, feedback loop, interactive loop).    *)
(***************************************************************************)
EXTENDS Integers, Sequences, FiniteSets, TLC

VARIABLES
    memory,           \* memory[i]: the engine's Memory (address -> value, sparse)
    iptr,             \* iptr[i]: instruction pointer
    rbase,            \* rbase[i]: relative base
    thread,           \* thread[i]: where the engine thread of instance i stands
    computer_input,   \* queue of the input channel (isend -> irecv)
    computer_output,  \* queue of the output channel (osend -> orecv)
    computer_halted,  \* queue of the halt channel (hsend -> hrecv)
    wait_output,      \* queue of the blocked-on-input channel (wsend -> wrecv)
    WaitingOnInput,   \* IntcodeComputer.WaitingOnInput
    handle,           \* handle[i]: the driver still owns the IntcodeComputer
    drv,              \* the driver: its position and locals
    call,             \* the last handle method that returned, and what it returned
    trace             \* per instance, what has happened so far: values sent,
                      \* consumed, stored, emitted and received, notifications
                      \* sent, and polls that answered true

vars == <<memory, iptr, rbase, thread, computer_input, computer_output,
          computer_halted, wait_output, WaitingOnInput, handle, drv, call, trace>>

engine_vars == <<memory, iptr, rbase, thread>>

-----------------------------------------------------------------------------
(* Rust integer division and remainder truncate toward zero.               *)

RustDiv(a, b) == IF a >= 0 THEN a \div b ELSE -((-a) \div b)

\* the remainder that is never negative
FloorRem(a, b) == a % b

RustRem(a, b) == a - b * RustDiv(a, b)

-----------------------------------------------------------------------------
(* Decoder                                                                 *)

DefaultModes == [k \in 0..3 |-> "PositionMode"]

\* the if chain of day05.rs, which has no RelativeMode arm
ModeOfDigitNoRelative(d, old) ==
    IF d = 0 THEN "PositionMode"
    ELSE IF d = 1 THEN "ImmediateMode"
    ELSE old

\* an if chain whose last arm takes every other digit as Immediate
ModeOfDigitElseImmediate(d, old) ==
    IF d = 0 THEN "PositionMode"
    ELSE IF d = 2 THEN "RelativeMode"
    ELSE "ImmediateMode"

ModeOfDigit(d, old) ==
    IF d = 0 THEN "PositionMode"
    ELSE IF d = 1 THEN "ImmediateMode"
    ELSE IF d = 2 THEN "RelativeMode"
    ELSE old

\* The while loop of get_parameter_modes_from_opcode; the array has four
\* slots, and only the arms of the digits 0, 1 and 2 index it: such a digit
\* in the fifth place or beyond indexes out of bounds and panics, any other
\* digit there is passed over.
RECURSIVE ModesLoop(_, _, _)
ModesLoop(t, i, pm) ==
    IF t > 0
    THEN IF i > 3
         THEN IF RustRem(t, 10) \in {0, 1, 2}
              THEN [ok |-> FALSE, modes |-> pm]
              ELSE ModesLoop(RustDiv(t, 10), i + 1, pm)
         ELSE ModesLoop(RustDiv(t, 10), i + 1,
                        [pm EXCEPT ![i] = ModeOfDigit(RustRem(t, 10), pm[i])])
    ELSE [ok |-> TRUE, modes |-> pm]

get_parameter_modes_from_opcode(opcode) == ModesLoop(opcode, 0, DefaultModes)

-----------------------------------------------------------------------------
(* Memory: a function whose domain is the set of materialized addresses.   *)

EmptyMemory == [a \in {} |-> 0]

\* impl Index<i64> for Memory
Index(mem, index) ==
    IF index < 0 THEN [ok |-> FALSE, v |-> 0]
    ELSE IF index \in DOMAIN mem THEN [ok |-> TRUE, v |-> mem[index]]
    ELSE [ok |-> TRUE, v |-> 0]

\* a read through entry(index).or_insert(0)
IndexEntry(mem, index) ==
    IF index < 0 THEN mem
    ELSE [a \in (DOMAIN mem) \cup {index} |-> IF a \in DOMAIN mem THEN mem[a] ELSE 0]

\* The map after index(&self, ...): contains_key and get leave it as it is.
IndexKeeps(mem, index) == mem

\* a write whose address is cut to 16 bits
IndexMutAssignNarrow(mem, index, v) ==
    IF index < 0 THEN [ok |-> FALSE, memory |-> mem, why |-> "panic_index"]
    ELSE [ok |-> TRUE,
          memory |-> [a \in (DOMAIN mem) \cup {index % 65536} |->
                         IF a = index % 65536 THEN v ELSE mem[a]],
          why |-> ""]

\* a write that does not look at the sign of the address
IndexMutAssignUnchecked(mem, index, v) ==
    [ok |-> TRUE,
     memory |-> [a \in (DOMAIN mem) \cup {index} |->
                    IF a = index THEN v ELSE mem[a]],
     why |-> ""]

\* impl IndexMut<i64> for Memory, followed by the assignment through it
IndexMutAssign(mem, index, v) ==
    IF index < 0 THEN [ok |-> FALSE, memory |-> mem, why |-> "panic_index"]
    ELSE [ok |-> TRUE,
          memory |-> [a \in (DOMAIN mem) \cup {index} |->
                         IF a = index THEN v ELSE mem[a]],
          why |-> ""]

\* get_value whose RelativeMode forgets the relative base
get_value_no_rbase(mem, ip, param_mode, rb) ==
    LET param == Index(mem, ip) IN
    IF ~param.ok THEN param
    ELSE IF param_mode = "PositionMode" THEN Index(mem, param.v)
    ELSE IF param_mode = "ImmediateMode" THEN [ok |-> TRUE, v |-> param.v]
    ELSE Index(mem, param.v)

get_value(mem, ip, param_mode, rb) ==
    LET param == Index(mem, ip) IN
    IF ~param.ok THEN param
    ELSE IF param_mode = "PositionMode" THEN Index(mem, param.v)
    ELSE IF param_mode = "ImmediateMode" THEN [ok |-> TRUE, v |-> param.v]
    ELSE Index(mem, param.v + rb)

\* set_value as day05.rs writes: at the operand, whatever its mode digit
set_value_any_mode(mem, ip, param_mode, rb, v) ==
    LET param == Index(mem, ip) IN
    IF ~param.ok THEN [ok |-> FALSE, memory |-> mem, why |-> "panic_index"]
    ELSE IF param_mode = "RelativeMode" THEN IndexMutAssign(mem, param.v + rb, v)
    ELSE IndexMutAssign(mem, param.v, v)

set_value(mem, ip, param_mode, rb, v) ==
    LET param == Index(mem, ip) IN
    IF ~param.ok THEN [ok |-> FALSE, memory |-> mem, why |-> "panic_index"]
    ELSE IF param_mode = "PositionMode" THEN IndexMutAssign(mem, param.v, v)
    ELSE IF param_mode = "RelativeMode" THEN IndexMutAssign(mem, param.v + rb, v)
    ELSE [ok |-> FALSE, memory |-> mem, why |-> "panic_set_value"]

\* a load that materializes only the cells whose value is not 0
LoadProgramSparse(input) ==
    [a \in {x \in 0..(Len(input) - 1) : input[x + 1] # 0} |-> input[a + 1]]

\* The loading loop at the head of intcode_program.
LoadProgram(input) ==
    [a \in 0..(Len(input) - 1) |-> input[a + 1]]

-----------------------------------------------------------------------------
(* Execution engine: one pass through the loop of intcode_program.         *)
(* The outcome says how the pass ended:                                    *)
(*   "step"   the instruction completed and the loop continues             *)
(*   "input"  opcode 3: the engine notifies and goes on to receive         *)
(*   "halt"   opcode 99                                                    *)
(*   "panic_index"     Memory indexed with a negative address              *)
(*   "panic_modes"     a digit 0..2 in fifth place indexes past the modes  *)
(*   "panic_set_value" write target in ImmediateMode                       *)
(*   "panic_opcode"    unrecognized opcode                                 *)

Outcome(kind, mem, ip, rb, out) ==
    [kind |-> kind, memory |-> mem, iptr |-> ip, rbase |-> rb, output |-> out]

\* opcode 2 adding instead of multiplying
ArithMulAsAdd(opcode, a, b) ==
    IF opcode \in {1, 2} THEN a + b
    ELSE IF opcode = 7 THEN (IF a < b THEN 1 ELSE 0)
    ELSE (IF a = b THEN 1 ELSE 0)

\* opcode 7 storing 1 for a <= b
ArithLessOrEqual(opcode, a, b) ==
    IF opcode = 1 THEN a + b
    ELSE IF opcode = 2 THEN a * b
    ELSE IF opcode = 7 THEN (IF a <= b THEN 1 ELSE 0)
    ELSE (IF a = b THEN 1 ELSE 0)

\* the values opcodes 1, 2, 7 and 8 store
Arith(opcode, a, b) ==
    IF opcode = 1 THEN a + b
    ELSE IF opcode = 2 THEN a * b
    ELSE IF opcode = 7 THEN (IF a < b THEN 1 ELSE 0)
    ELSE (IF a = b THEN 1 ELSE 0)

\* opcodes 1, 2, 7, 8: two reads, then one write through set_value
ExecArith(opcode, mem, ip, rb, pm) ==
    LET i1 == get_value(mem, ip + 1, pm[0], rb)
        i2 == get_value(mem, ip + 2, pm[1], rb)
    IN  IF ~i1.ok \/ ~i2.ok THEN Outcome("panic_index", mem, ip, rb, <<>>)
        ELSE LET w == set_value(mem, ip + 3, pm[2], rb, Arith(opcode, i1.v, i2.v))
             IN  IF ~w.ok THEN Outcome(w.why, mem, ip, rb, <<>>)
                 ELSE Outcome("step", w.memory, ip + 4, rb, <<>>)

\* opcode 4
ExecOutput(mem, ip, rb, pm) ==
    LET i1 == get_value(mem, ip + 1, pm[0], rb)
    IN  IF ~i1.ok THEN Outcome("panic_index", mem, ip, rb, <<>>)
        ELSE Outcome("step", mem, ip + 2, rb, <<i1.v>>)

\* a jump not taken stepping over two cells
ExecJumpShortStep(opcode, mem, ip, rb, pm) ==
    LET i1 == get_value(mem, ip + 1, pm[0], rb)
        i2 == get_value(mem, ip + 2, pm[1], rb)
    IN  IF ~i1.ok \/ ~i2.ok THEN Outcome("panic_index", mem, ip, rb, <<>>)
        ELSE IF (opcode = 5 /\ i1.v # 0) \/ (opcode = 6 /\ i1.v = 0)
             THEN Outcome("step", mem, i2.v, rb, <<>>)
             ELSE Outcome("step", mem, ip + 2, rb, <<>>)

\* a jump taken relative to the current instruction
ExecJumpRelative(opcode, mem, ip, rb, pm) ==
    LET i1 == get_value(mem, ip + 1, pm[0], rb)
        i2 == get_value(mem, ip + 2, pm[1], rb)
    IN  IF ~i1.ok \/ ~i2.ok THEN Outcome("panic_index", mem, ip, rb, <<>>)
        ELSE IF (opcode = 5 /\ i1.v # 0) \/ (opcode = 6 /\ i1.v = 0)
             THEN Outcome("step", mem, ip + i2.v, rb, <<>>)
             ELSE Outcome("step", mem, ip + 3, rb, <<>>)

\* opcodes 5 and 6
ExecJump(opcode, mem, ip, rb, pm) ==
    LET i1 == get_value(mem, ip + 1, pm[0], rb)
        i2 == get_value(mem, ip + 2, pm[1], rb)
    IN  IF ~i1.ok \/ ~i2.ok THEN Outcome("panic_index", mem, ip, rb, <<>>)
        ELSE IF (opcode = 5 /\ i1.v # 0) \/ (opcode = 6 /\ i1.v = 0)
             THEN Outcome("step", mem, i2.v, rb, <<>>)
             ELSE Outcome("step", mem, ip + 3, rb, <<>>)

\* opcode 9 that leaves the relative base where it was
ExecRbaseIgnored(mem, ip, rb, pm) ==
    LET i1 == get_value(mem, ip + 1, pm[0], rb)
    IN  IF ~i1.ok THEN Outcome("panic_index", mem, ip, rb, <<>>)
        ELSE Outcome("step", mem, ip + 2, rb, <<>>)

\* opcode 9 setting the relative base to its operand
ExecRbaseAssigned(mem, ip, rb, pm) ==
    LET i1 == get_value(mem, ip + 1, pm[0], rb)
    IN  IF ~i1.ok THEN Outcome("panic_index", mem, ip, rb, <<>>)
        ELSE Outcome("step", mem, ip + 2, i1.v, <<>>)

\* opcode 9
ExecRbase(mem, ip, rb, pm) ==
    LET i1 == get_value(mem, ip + 1, pm[0], rb)
    IN  IF ~i1.ok THEN Outcome("panic_index", mem, ip, rb, <<>>)
        ELSE Outcome("step", mem, ip + 2, rb + i1.v, <<>>)

\* a fetch from the program vector the instance was spawned on
FetchFromProgram(mem, ip) == Index(LoadProgram(drv.program), ip)

\* memory[iptr] at the head of the loop
Fetch(mem, ip) == Index(mem, ip)

\* fetch, decode, and the match on the opcode
Execute(mem, ip, rb) ==
    LET word == Fetch(mem, ip) IN
    IF ~word.ok THEN Outcome("panic_index", mem, ip, rb, <<>>)
    ELSE
    LET opcode == RustRem(word.v, 100)
        param_modes == get_parameter_modes_from_opcode(RustDiv(word.v, 100))
        pm == param_modes.modes
    IN  IF ~param_modes.ok THEN Outcome("panic_modes", mem, ip, rb, <<>>)
        ELSE IF opcode \in {1, 2, 7, 8} THEN ExecArith(opcode, mem, ip, rb, pm)
        ELSE IF opcode = 3 THEN Outcome("input", mem, ip, rb, <<>>)
        ELSE IF opcode = 4 THEN ExecOutput(mem, ip, rb, pm)
        ELSE IF opcode \in {5, 6} THEN ExecJump(opcode, mem, ip, rb, pm)
        ELSE IF opcode = 9 THEN ExecRbase(mem, ip, rb, pm)
        ELSE IF opcode = 99 THEN Outcome("halt", mem, ip, rb, <<>>)
        ELSE Outcome("panic_opcode", mem, ip, rb, <<>>)

\* opcode 3 stepping over its opcode only
StoreInputShortStep(mem, ip, rb, v) ==
    LET word == Index(mem, ip)
        pm == get_parameter_modes_from_opcode(RustDiv(word.v, 100)).modes
        w == set_value(mem, ip + 1, pm[0], rb, v)
    IN  IF ~w.ok THEN Outcome(w.why, mem, ip, rb, <<>>)
        ELSE Outcome("step", w.memory, ip + 1, rb, <<>>)

\* opcode 3 after the receive returned value v: the store and the step
StoreInput(mem, ip, rb, v) ==
    LET word == Index(mem, ip)
        pm == get_parameter_modes_from_opcode(RustDiv(word.v, 100)).modes
        w == set_value(mem, ip + 1, pm[0], rb, v)
    IN  IF ~w.ok THEN Outcome(w.why, mem, ip, rb, <<>>)
        ELSE Outcome("step", w.memory, ip + 2, rb, <<>>)

-----------------------------------------------------------------------------
(* The engine thread of instance i.                                        *)
(*   "running"    in the loop, about to fetch                              *)
(*   "receiving"  opcode 3: wait_output.send done, inside computer_input.recv *)
(*   "halting"    opcode 99: computer_halted.send done, not yet returned   *)
(*   "returned"   the thread returned its Memory; its endpoints are dropped *)
(*   "panic_..."  the thread panicked; its endpoints are dropped           *)

ICs == DOMAIN thread

PanicKinds == {"panic_index", "panic_modes", "panic_set_value",
               "panic_opcode", "panic_recv"}

\* The engine still owns irecv, osend, hsend and wsend.
Alive(i) == thread[i] \in {"running", "receiving", "halting"}

\* opcode 99 notifying and then going round the loop again
NextThreadAfterHaltRuns(kind) ==
    IF kind \in {"step", "halt"} THEN "running"
    ELSE IF kind = "input" THEN "receiving"
    ELSE kind

NextThread(kind) ==
    IF kind = "step" THEN "running"
    ELSE IF kind = "input" THEN "receiving"
    ELSE IF kind = "halt" THEN "halting"
    ELSE kind

\* Sender::send on a channel whose receiver the driver may have dropped:
\* the engine ignores the Err.
ChannelSend(q, i, msgs) ==
    IF handle[i] THEN [q EXCEPT ![i] = @ \o msgs] ELSE q

\* opcode 3 without its notification
WaitNotificationNone(kind) == <<>>

\* wait_output.send(0) of opcode 3
WaitNotification(kind) == IF kind = "input" THEN <<0>> ELSE <<>>

\* the unrecognized-opcode arm notifying halt as well
HaltNotificationOnBadOpcode(kind) ==
    IF kind \in {"halt", "panic_opcode"} THEN <<0>> ELSE <<>>

\* computer_halted.send(0) of opcode 99
HaltNotification(kind) == IF kind = "halt" THEN <<0>> ELSE <<>>

\* engines that all work on one Memory
EngineEffectShared(i, r) ==
    /\ memory' = [j \in ICs |-> r.memory]
    /\ iptr' = [iptr EXCEPT ![i] = r.iptr]
    /\ rbase' = [rbase EXCEPT ![i] = r.rbase]
    /\ thread' = [thread EXCEPT ![i] = NextThread(r.kind)]
    /\ computer_output' = ChannelSend(computer_output, i, r.output)
    /\ wait_output' = ChannelSend(wait_output, i, WaitNotification(r.kind))
    /\ computer_halted' = ChannelSend(computer_halted, i, HaltNotification(r.kind))
    /\ trace' = [trace EXCEPT
                   ![i].emitted = @ \o r.output,
                   ![i].waits = @ + Len(WaitNotification(r.kind)),
                   ![i].halts = @ + Len(HaltNotification(r.kind))]

\* a pass whose sends are unwrapped: a send that fails aborts the thread
EngineEffectSendUnwrap(i, r) ==
    /\ memory' = [memory EXCEPT ![i] = r.memory]
    /\ iptr' = [iptr EXCEPT ![i] = r.iptr]
    /\ rbase' = [rbase EXCEPT ![i] = r.rbase]
    /\ thread' = [thread EXCEPT ![i] =
                     IF ~handle[i] /\ r.kind \in {"step", "input", "halt"}
                        /\ r.output \o WaitNotification(r.kind)
                                    \o HaltNotification(r.kind) # <<>>
                     THEN "panic_recv"
                     ELSE NextThread(r.kind)]
    /\ computer_output' = ChannelSend(computer_output, i, r.output)
    /\ wait_output' = ChannelSend(wait_output, i, WaitNotification(r.kind))
    /\ computer_halted' = ChannelSend(computer_halted, i, HaltNotification(r.kind))
    /\ trace' = [trace EXCEPT
                   ![i].emitted = @ \o r.output,
                   ![i].waits = @ + Len(WaitNotification(r.kind)),
                   ![i].halts = @ + Len(HaltNotification(r.kind))]

\* What a pass with outcome r writes: the thread's own locals and the
\* channels it sends on.
EngineEffect(i, r) ==
    /\ memory' = [memory EXCEPT ![i] = r.memory]
    /\ iptr' = [iptr EXCEPT ![i] = r.iptr]
    /\ rbase' = [rbase EXCEPT ![i] = r.rbase]
    /\ thread' = [thread EXCEPT ![i] = NextThread(r.kind)]
    /\ computer_output' = ChannelSend(computer_output, i, r.output)
    /\ wait_output' = ChannelSend(wait_output, i, WaitNotification(r.kind))
    /\ computer_halted' = ChannelSend(computer_halted, i, HaltNotification(r.kind))
    /\ trace' = [trace EXCEPT
                   ![i].emitted = @ \o r.output,
                   ![i].waits = @ + Len(WaitNotification(r.kind)),
                   ![i].halts = @ + Len(HaltNotification(r.kind))]

\* A pass with outcome r: its writes, and everything else as it was.
EngineApply(i, r) ==
    /\ EngineEffect(i, r)
    /\ UNCHANGED <<computer_input, WaitingOnInput, handle, drv, call>>

\* One pass through the loop, up to the instruction's end, the blocking
\* receive of opcode 3, the halt notification of opcode 99, or a panic.
EngineStep(i) ==
    /\ thread[i] = "running"
    /\ EngineApply(i, Execute(memory[i], iptr[i], rbase[i]))

\* Passes through the loop up to and including the next one that touches a
\* channel or ends the thread.  The passes before it touch only the engine's
\* own memory, iptr and rbase, which no other thread can see, so taking them
\* in one step loses no interleaving of the channel operations.
MaxLocalSteps == 4

RECURSIVE RunToEvent(_, _, _, _)
RunToEvent(mem, ip, rb, fuel) ==
    LET r == Execute(mem, ip, rb) IN
    IF r.kind = "step" /\ r.output = <<>> /\ fuel > 0
    THEN RunToEvent(r.memory, r.iptr, r.rbase, fuel - 1)
    ELSE r

EngineRun(i) ==
    /\ thread[i] = "running"
    /\ EngineApply(i, RunToEvent(memory[i], iptr[i], rbase[i], MaxLocalSteps))

\* computer_input.recv() of opcode 3 returns: a value, which is stored, or
\* Err once the driver has dropped InputSender and nothing is queued.
EngineReceive(i) ==
    /\ thread[i] = "receiving"
    /\ \/ /\ computer_input[i] # <<>>
          /\ LET v == Head(computer_input[i])
                 r == StoreInput(memory[i], iptr[i], rbase[i], v) IN
             /\ memory' = [memory EXCEPT ![i] = r.memory]
             /\ iptr' = [iptr EXCEPT ![i] = r.iptr]
             /\ thread' = [thread EXCEPT ![i] = NextThread(r.kind)]
             /\ trace' = [trace EXCEPT
                            ![i].consumed = Append(@, v),
                            ![i].stored = IF r.kind = "step" THEN Append(@, v) ELSE @]
          /\ computer_input' = [computer_input EXCEPT ![i] = Tail(@)]
       \/ /\ computer_input[i] = <<>>
          /\ ~handle[i]
          /\ thread' = [thread EXCEPT ![i] = "panic_recv"]
          /\ UNCHANGED <<memory, iptr, computer_input, trace>>
    /\ UNCHANGED <<rbase, computer_output, computer_halted, wait_output,
                   WaitingOnInput, handle, drv, call>>

\* `return memory` of opcode 99: the thread ends and drops its endpoints.
EngineReturn(i) ==
    /\ thread[i] = "halting"
    /\ thread' = [thread EXCEPT ![i] = "returned"]
    /\ UNCHANGED <<memory, iptr, rbase, computer_input, computer_output,
                   computer_halted, wait_output, WaitingOnInput, handle,
                   drv, call, trace>>

Engine(i) == EngineStep(i) \/ EngineReceive(i) \/ EngineReturn(i)

-----------------------------------------------------------------------------
(* The methods of IntcodeComputer.  Each is the whole call: it fixes every  *)
(* variable but drv, and records in `call` what it returned.                *)

Truth(b) == IF b THEN 1 ELSE 0

Returned(op, i, ok, v) ==
    call' = [n |-> call.n + 1, op |-> op, ic |-> i, ok |-> ok, v |-> v]

\* a channel that hands out the newest value first
EnqueueFront(q, v) == <<v>> \o q

\* Sender::send on the unbounded FIFO channel
Enqueue(q, v) == Append(q, v)

\* a send on a channel that holds one value: it waits while one is queued
send_rendezvous(i, v) ==
    /\ computer_input[i] = <<>>
    /\ WaitingOnInput' = [WaitingOnInput EXCEPT ![i] = FALSE]
    /\ IF Alive(i)
       THEN /\ computer_input' = [computer_input EXCEPT ![i] = Enqueue(@, v)]
            /\ trace' = [trace EXCEPT ![i].sent = Append(@, v)]
            /\ Returned("send", i, TRUE, v)
       ELSE /\ UNCHANGED <<computer_input, trace>>
            /\ Returned("send", i, FALSE, v)
    /\ UNCHANGED <<engine_vars, computer_output, computer_halted, wait_output, handle>>

\* send: ok = FALSE is the Err that expect() turns into a panic.
send(i, v) ==
    /\ WaitingOnInput' = [WaitingOnInput EXCEPT ![i] = FALSE]
    /\ IF Alive(i)
       THEN /\ computer_input' = [computer_input EXCEPT ![i] = Enqueue(@, v)]
            /\ trace' = [trace EXCEPT ![i].sent = Append(@, v)]
            /\ Returned("send", i, TRUE, v)
       ELSE /\ UNCHANGED <<computer_input, trace>>
            /\ Returned("send", i, FALSE, v)
    /\ UNCHANGED <<engine_vars, computer_output, computer_halted, wait_output, handle>>

\* a receive that never learns that the sender is gone
RecvReadyValueOnly(i) == computer_output[i] # <<>>

\* Receiver::recv blocks while the queue is empty and a sender exists.
RecvReady(i) == computer_output[i] # <<>> \/ ~Alive(i)

\* recv2: ok = FALSE is Err(RecvError).
recv2(i) ==
    /\ RecvReady(i)
    /\ IF computer_output[i] # <<>>
       THEN /\ computer_output' = [computer_output EXCEPT ![i] = Tail(@)]
            /\ trace' = [trace EXCEPT ![i].received = Append(@, Head(computer_output[i]))]
            /\ Returned("recv", i, TRUE, Head(computer_output[i]))
       ELSE /\ UNCHANGED <<computer_output, trace>>
            /\ Returned("recv", i, FALSE, 0)
    /\ UNCHANGED <<engine_vars, computer_input, computer_halted, wait_output,
                   WaitingOnInput, handle>>

\* recv: recv2 followed by unwrap(); ok = FALSE is the panic of the caller.
recv(i) == recv2(i)

\* a poll that waits for a value while the engine may still produce one
try_recv_blocking(i) ==
    /\ RecvReady(i)
    /\ IF computer_output[i] # <<>>
       THEN /\ computer_output' = [computer_output EXCEPT ![i] = Tail(@)]
            /\ trace' = [trace EXCEPT ![i].received = Append(@, Head(computer_output[i]))]
            /\ Returned("try_recv", i, TRUE, Head(computer_output[i]))
       ELSE /\ UNCHANGED <<computer_output, trace>>
            /\ Returned("try_recv", i, FALSE, 0)
    /\ UNCHANGED <<engine_vars, computer_input, computer_halted, wait_output,
                   WaitingOnInput, handle>>

\* try_recv: ok = FALSE is None.
try_recv(i) ==
    /\ IF computer_output[i] # <<>>
       THEN /\ computer_output' = [computer_output EXCEPT ![i] = Tail(@)]
            /\ trace' = [trace EXCEPT ![i].received = Append(@, Head(computer_output[i]))]
            /\ Returned("try_recv", i, TRUE, Head(computer_output[i]))
       ELSE /\ UNCHANGED <<computer_output, trace>>
            /\ Returned("try_recv", i, FALSE, 0)
    /\ UNCHANGED <<engine_vars, computer_input, computer_halted, wait_output,
                   WaitingOnInput, handle>>

\* HaltReceiver.try_recv() inside halted(): it takes the value it finds.
HaltTryRecv(q) == IF q # <<>> THEN Tail(q) ELSE q

\* halted: ok is the boolean returned.
halted(i) ==
    /\ computer_halted' = [computer_halted EXCEPT ![i] = HaltTryRecv(@)]
    /\ Returned("halted", i, computer_halted[i] # <<>>, 0)
    /\ trace' = [trace EXCEPT ![i].halted_true = @ + Truth(computer_halted[i] # <<>>)]
    /\ UNCHANGED <<engine_vars, computer_input, computer_output, wait_output,
                   WaitingOnInput, handle>>

\* waiting_on_input without the early return on the flag
waiting_on_input_unlatched(i) ==
    /\ wait_output' = [wait_output EXCEPT ![i] = IF @ # <<>> THEN Tail(@) ELSE @]
    /\ WaitingOnInput' = [WaitingOnInput EXCEPT ![i] = (wait_output[i] # <<>>)]
    /\ Returned("waiting_on_input", i, WaitingOnInput'[i], 0)
    /\ trace' = [trace EXCEPT ![i].waiting_true = @ + Truth(WaitingOnInput'[i])]
    /\ UNCHANGED <<engine_vars, computer_input, computer_output, computer_halted,
                   handle>>

\* waiting_on_input: ok is the boolean returned.
waiting_on_input(i) ==
    /\ IF WaitingOnInput[i]
       THEN UNCHANGED <<wait_output, WaitingOnInput>>
       ELSE /\ wait_output' = [wait_output EXCEPT ![i] = IF @ # <<>> THEN Tail(@) ELSE @]
            /\ WaitingOnInput' = [WaitingOnInput EXCEPT ![i] = (wait_output[i] # <<>>)]
    /\ Returned("waiting_on_input", i, WaitingOnInput'[i], 0)
    /\ trace' = [trace EXCEPT ![i].waiting_true = @ + Truth(WaitingOnInput'[i])]
    /\ UNCHANGED <<engine_vars, computer_input, computer_output, computer_halted,
                   handle>>

\* a join that does not wait for the thread
JoinDetached(i) == TRUE

\* JoinHandle::join blocks until the thread's closure has returned or panicked.
JoinReady(i) == ~Alive(i)

\* ic.ThreadHandle.join(): ok = FALSE is the Err of a thread that panicked,
\* which unwrap() turns into a panic of the caller; v is the Memory returned.
join(i) ==
    /\ JoinReady(i)
    /\ Returned("join", i, thread[i] = "returned", memory[i])
    /\ UNCHANGED <<engine_vars, computer_input, computer_output, computer_halted,
                   wait_output, WaitingOnInput, handle, trace>>

-----------------------------------------------------------------------------
(* Spec: one instance under a driver that calls the handle's methods in    *)
(* any order, as the tests and mains of day15.rs do between them.          *)

MaxCalls == 4

InputValues == {5, 6}

Programs == {
    <<3, 11, 4, 11, 3, 12, 4, 12, 104, 7, 99, 0, 0>>,  \* in, out, in, out, out, halt
    <<104, 5, 104, 6, 99>>,                            \* two outputs, halt
    <<3, 5, 4, 5, 98, 0>>,                             \* in, out, unrecognized opcode
    <<104, 5, 1, -1, 0, 0, 99>>,                       \* out, negative address
    <<103, 0, 99>>,                                    \* input into an Immediate target
    <<11101, 1, 1, 0, 99>>,                            \* add into an Immediate target
    <<109, -5, 204, 0, 99>>,                           \* Relative read below address 0
    <<1105, 1, -3, 99>>,                               \* jump to a negative address
    <<1101, 1, 1, -1, 99>>,                            \* add into a negative address
    <<109, -5, 21101, 1, 1, 0, 99>>,                   \* Relative write below address 0
    <<3, -1, 99>>                                      \* input into a negative address
}

EmptyTrace ==
    [sent |-> <<>>, consumed |-> <<>>, stored |-> <<>>, emitted |-> <<>>,
     received |-> <<>>, waits |-> 0, halts |-> 0,
     halted_true |-> 0, waiting_true |-> 0]

NoCall == [n |-> 0, op |-> "none", ic |-> 0, ok |-> FALSE, v |-> 0]

\* run_intcode_computer for every instance of `ics`, instance i on program prog[i]
Spawned(ics, prog) ==
    /\ memory = [i \in ics |-> LoadProgram(prog[i])]
    /\ iptr = [i \in ics |-> 0]
    /\ rbase = [i \in ics |-> 0]
    /\ thread = [i \in ics |-> "running"]
    /\ computer_input = [i \in ics |-> <<>>]
    /\ computer_output = [i \in ics |-> <<>>]
    /\ computer_halted = [i \in ics |-> <<>>]
    /\ wait_output = [i \in ics |-> <<>>]
    /\ WaitingOnInput = [i \in ics |-> FALSE]
    /\ handle = [i \in ics |-> TRUE]
    /\ trace = [i \in ics |-> EmptyTrace]
    /\ call = NoCall

Init ==
    /\ \E p \in Programs : Spawned({0}, [i \in {0} |-> p])
    /\ drv = [pc |-> "idle", ic |-> 0]

CanCall(i) == drv.pc = "idle" /\ handle[i] /\ call.n < MaxCalls

DrvSend(i, v) ==
    /\ CanCall(i)
    /\ send(i, v)
    /\ drv' = [drv EXCEPT !.pc = IF call'.ok THEN "idle" ELSE "panicked"]

\* the driver enters the blocking recv2 ...
DrvRecvCall(i) ==
    /\ CanCall(i)
    /\ drv' = [pc |-> "recv", ic |-> i]
    /\ UNCHANGED <<engine_vars, computer_input, computer_output, computer_halted,
                   wait_output, WaitingOnInput, handle, call, trace>>

\* ... and recv2 returns
DrvRecvReturn ==
    /\ drv.pc = "recv"
    /\ recv2(drv.ic)
    /\ drv' = [drv EXCEPT !.pc = "idle"]

DrvTryRecv(i) ==
    /\ CanCall(i)
    /\ try_recv(i)
    /\ UNCHANGED drv

DrvHalted(i) ==
    /\ CanCall(i)
    /\ halted(i)
    /\ UNCHANGED drv

DrvWaitingOnInput(i) ==
    /\ CanCall(i)
    /\ waiting_on_input(i)
    /\ UNCHANGED drv

\* the driver enters ic.ThreadHandle.join() ...
DrvJoinCall(i) ==
    /\ CanCall(i)
    /\ drv' = [pc |-> "join", ic |-> i]
    /\ UNCHANGED <<engine_vars, computer_input, computer_output, computer_halted,
                   wait_output, WaitingOnInput, handle, call, trace>>

\* ... and join().unwrap() returns the Memory, or panics; the handle was
\* moved out of, so no method is called after it
DrvJoinReturn ==
    /\ drv.pc = "join"
    /\ join(drv.ic)
    /\ drv' = [drv EXCEPT !.pc = IF call'.ok THEN "joined" ELSE "panicked"]

\* the IntcodeComputer goes out of scope: the driver's endpoints are dropped
\* and the thread is detached
DrvDrop(i) ==
    /\ drv.pc = "idle"
    /\ handle[i]
    /\ handle' = [handle EXCEPT ![i] = FALSE]
    /\ UNCHANGED <<engine_vars, computer_input, computer_output, computer_halted,
                   wait_output, WaitingOnInput, drv, call, trace>>

Next ==
    \/ \E i \in ICs : EngineStep(i)
    \/ \E i \in ICs : EngineReceive(i)
    \/ \E i \in ICs : EngineReturn(i)
    \/ \E i \in ICs, v \in InputValues : DrvSend(i, v)
    \/ \E i \in ICs : DrvRecvCall(i)
    \/ DrvRecvReturn
    \/ \E i \in ICs : DrvTryRecv(i)
    \/ \E i \in ICs : DrvHalted(i)
    \/ \E i \in ICs : DrvWaitingOnInput(i)
    \/ \E i \in ICs : DrvJoinCall(i)
    \/ DrvJoinReturn
    \/ \E i \in ICs : DrvDrop(i)

Spec == Init /\ [][Next]_vars

-----------------------------------------------------------------------------
(* RecvSpec: the same instance under a driver that only sends and makes     *)
(* blocking receives (test_16_digit, test_output_large_middle and the main *)
(* loops).  The engine threads run whenever they can and a blocked receive *)
(* returns once it can: the operating system schedules every thread.       *)

RecvNext ==
    \/ \E i \in ICs : EngineStep(i)
    \/ \E i \in ICs : EngineReceive(i)
    \/ \E i \in ICs : EngineReturn(i)
    \/ \E i \in ICs, v \in InputValues : DrvSend(i, v)
    \/ \E i \in ICs : DrvRecvCall(i)
    \/ DrvRecvReturn

RecvSpec ==
    /\ Init
    /\ [][RecvNext]_vars
    /\ WF_vars(\E i \in ICs : Engine(i))
    /\ WF_vars(DrvRecvReturn)

-----------------------------------------------------------------------------
(* IsolationSpec: two instances spawned side by side, each on program.clone() *)
(* of a vector the caller keeps (drv.program), under a driver that sends    *)
(* to either.                                                               *)

IsolationPrograms == {
    <<3, 9, 1001, 9, 1, 9, 4, 9, 99, 0>>,   \* in, add 1, out, halt
    <<3, 0, 1, -1, 0, 0, 99>>,              \* in over its own cell 0, negative read
    <<104, 5, 98>>                          \* out, unrecognized opcode
}

IsolationInit ==
    \E p0, p1 \in IsolationPrograms :
        /\ Spawned({0, 1}, [i \in {0, 1} |-> IF i = 0 THEN p0 ELSE p1])
        /\ drv = [pc |-> "idle", ic |-> 0,
                  program |-> [i \in {0, 1} |-> IF i = 0 THEN p0 ELSE p1]]

IsolationNext ==
    \/ \E i \in ICs : EngineStep(i)
    \/ \E i \in ICs : EngineReceive(i)
    \/ \E i \in ICs : EngineReturn(i)
    \/ \E i \in ICs, v \in InputValues : DrvSend(i, v)

IsolationSpec == IsolationInit /\ [][IsolationNext]_vars

-----------------------------------------------------------------------------
(* QuineSpec: test_quine.  The instance is spawned on the program, given   *)
(* no input, and joined; the operating system schedules its thread.        *)

QuineProgram ==
    <<109, 1, 204, -1, 1001, 100, 1, 100, 1008, 100, 16, 101, 1006, 101, 0, 99>>

QuineInit ==
    /\ Spawned({0}, [i \in {0} |-> QuineProgram])
    /\ drv = [pc |-> "idle", ic |-> 0]

QuineNext ==
    \/ \E i \in ICs : EngineStep(i)
    \/ \E i \in ICs : EngineReturn(i)
    \/ \E i \in ICs : DrvJoinCall(i)
    \/ DrvJoinReturn

QuineSpec ==
    /\ QuineInit
    /\ [][QuineNext]_vars
    /\ WF_vars(\E i \in ICs : Engine(i))
    /\ WF_vars(DrvJoinReturn)

-----------------------------------------------------------------------------
(* WideSpec: test_16_digit and test_output_large_middle, and programs of    *)
(* the same shape over other operands.  Their values pass 2^31, which      *)
(* TLC's integers do not, so here an i64 value (none is negative) is held  *)
(* as the sequence of its base-10000 digits, least                          *)
(* significant first and without leading zero digits; 0 is <<>>.  The       *)
(* operands are chosen so that no sum or product reaches 2^63.              *)

RECURSIVE ToWide(_)
ToWide(n) == IF n = 0 THEN <<>> ELSE <<n % 10000>> \o ToWide(n \div 10000)

\* back to an integer, for instruction words and addresses
RECURSIVE FromWide(_)
FromWide(w) == IF w = <<>> THEN 0 ELSE Head(w) + 10000 * FromWide(Tail(w))

\* the value written in groups of four decimal digits, most significant first
RECURSIVE Dec4(_)
Dec4(groups) ==
    IF groups = <<>> THEN <<>> ELSE Dec4(Tail(groups)) \o <<Head(groups)>>

RECURSIVE WTrim(_)
WTrim(w) ==
    IF w # <<>> /\ w[Len(w)] = 0 THEN WTrim(SubSeq(w, 1, Len(w) - 1)) ELSE w

RECURSIVE WSumCarry(_, _, _)
WSumCarry(a, b, c) ==
    IF a = <<>> /\ b = <<>>
    THEN IF c = 0 THEN <<>> ELSE <<c>>
    ELSE LET x == (IF a = <<>> THEN 0 ELSE Head(a))
                  + (IF b = <<>> THEN 0 ELSE Head(b)) + c
         IN  <<x % 10000>> \o WSumCarry(IF a = <<>> THEN <<>> ELSE Tail(a),
                                        IF b = <<>> THEN <<>> ELSE Tail(b),
                                        x \div 10000)

\* a + b
WSum(a, b) == WSumCarry(a, b, 0)

\* a times the single digit d, plus c
RECURSIVE WScale(_, _, _)
WScale(a, d, c) ==
    IF a = <<>>
    THEN IF c = 0 THEN <<>> ELSE <<c>>
    ELSE LET x == Head(a) * d + c
         IN  <<x % 10000>> \o WScale(Tail(a), d, x \div 10000)

\* a * b
RECURSIVE WProduct(_, _)
WProduct(a, b) ==
    IF a = <<>> THEN <<>>
    ELSE WTrim(WSum(WScale(b, Head(a), 0), <<0>> \o WProduct(Tail(a), b)))

\* the value modulo m, for m below 200000
RECURSIVE WMod(_, _)
WMod(w, m) == IF w = <<>> THEN 0 ELSE (Head(w) + 10000 * WMod(Tail(w), m)) % m

\* sums and products kept to 16 bits
WideArithNarrow(opcode, a, b) ==
    ToWide(WMod(IF opcode = 1 THEN WSum(a, b) ELSE WProduct(a, b), 65536))

\* i1 + i2 of opcode 1 and i1 * i2 of opcode 2, on i64
WideArith(opcode, a, b) == IF opcode = 1 THEN WSum(a, b) ELSE WProduct(a, b)

\* Index on a Memory of such values
WideIndex(mem, index) == IF index \in DOMAIN mem THEN mem[index] ELSE <<>>

\* get_value on a Memory of such values
WideGetValue(mem, ip, param_mode, rb) ==
    LET param == WideIndex(mem, ip) IN
    IF param_mode = "PositionMode" THEN WideIndex(mem, FromWide(param))
    ELSE IF param_mode = "ImmediateMode" THEN param
    ELSE WideIndex(mem, FromWide(param) + rb)

\* One pass of the loop of intcode_program over such a Memory: the arms of
\* opcodes 1, 2, 4 and 99, the only ones in the programs of WideSpec, with
\* the write of opcodes 1 and 2 in PositionMode.
ExecuteWide(mem, ip, rb) ==
    LET word == FromWide(WideIndex(mem, ip))
        opcode == RustRem(word, 100)
        pm == get_parameter_modes_from_opcode(RustDiv(word, 100)).modes
    IN  CASE opcode \in {1, 2} ->
                LET i1 == WideGetValue(mem, ip + 1, pm[0], rb)
                    i2 == WideGetValue(mem, ip + 2, pm[1], rb)
                    param == FromWide(WideIndex(mem, ip + 3))
                IN  Outcome("step",
                            [a \in (DOMAIN mem) \cup {param} |->
                                IF a = param THEN WideArith(opcode, i1, i2)
                                ELSE mem[a]],
                            ip + 4, rb, <<>>)
          [] opcode = 4 ->
                Outcome("step", mem, ip + 2, rb,
                        <<WideGetValue(mem, ip + 1, pm[0], rb)>>)
          [] opcode = 99 -> Outcome("halt", mem, ip, rb, <<>>)

WideFactors == {ToWide(34915192), ToWide(65536), ToWide(99999999)}

WideTerms == {Dec4(<<1125, 8999, 684, 2624>>), ToWide(2147483647),
              ToWide(34915192)}

\* op a, b into cell 7, output cell 7, halt: operands in the instruction
WideImmediateProgram(op, a, b) ==
    <<ToWide(1100 + op), a, b, ToWide(7), ToWide(4), ToWide(7), ToWide(99), <<>>>>

\* the same with the operands in cells 7 and 8 and the result in cell 9
WidePositionProgram(op, a, b) ==
    <<ToWide(op), ToWide(7), ToWide(8), ToWide(9), ToWide(4), ToWide(9),
      ToWide(99), a, b, <<>>>>

WidePrograms ==
    {WideImmediateProgram(2, a, b) : a, b \in WideFactors}
    \cup {WidePositionProgram(2, a, b) : a, b \in WideFactors}
    \cup {WideImmediateProgram(1, a, b) : a, b \in WideTerms}
    \cup {WidePositionProgram(1, a, b) : a, b \in WideTerms}
    \cup {<<ToWide(104), v, ToWide(99)>> : v \in WideTerms}

WideInit ==
    /\ \E p \in WidePrograms : Spawned({0}, [i \in {0} |-> p])
    /\ drv = [pc |-> "idle", ic |-> 0]

WideEngineStep(i) ==
    /\ thread[i] = "running"
    /\ EngineApply(i, ExecuteWide(memory[i], iptr[i], rbase[i]))

WideNext ==
    \/ \E i \in ICs : WideEngineStep(i)
    \/ \E i \in ICs : EngineReturn(i)
    \/ \E i \in ICs : DrvRecvCall(i)
    \/ DrvRecvReturn

WideSpec == WideInit /\ [][WideNext]_vars

-----------------------------------------------------------------------------
(* ModeSpec: one instruction at address 0, run once on each of two         *)
(* memories.  Memory 1 holds the instruction with read operand k in        *)
(* PositionMode or RelativeMode; memory 0 is the same except that operand  *)
(* k is in ImmediateMode and its cell holds the value that memory 1 has at *)
(* the address the operand names.  drv.image keeps both as drawn.          *)

ModeOpcodes == {1, 2, 4, 5, 6, 7, 8, 9}

\* what the operand cells 1..3 are drawn from: the addresses of the opcode
\* word, of the operand cells, and of a data cell
ModeCells == {0, 1, 2, 4}

ModeWord(opcode, d1, d2) == opcode + 100 * d1 + 1000 * d2

\* number of read operands
Reads(opcode) == IF opcode \in {4, 9} THEN 1 ELSE 2

ModeDigit(mode) ==
    IF mode = "PositionMode" THEN 0 ELSE IF mode = "ImmediateMode" THEN 1 ELSE 2

ModeInit ==
    \E opcode \in ModeOpcodes, p1, p2, p3 \in ModeCells, c4 \in {0, 7},
       rb \in {0, 1}, mode \in {"PositionMode", "RelativeMode"},
       other \in {"PositionMode", "ImmediateMode"} :
      \E k \in 1..Reads(opcode) :
        LET d1 == ModeDigit(IF k = 1 THEN mode ELSE other)
            d2 == IF Reads(opcode) = 1 THEN 0
                  ELSE ModeDigit(IF k = 2 THEN mode ELSE other)
            indirect == LoadProgram(<<ModeWord(opcode, d1, d2), p1, p2, p3, c4>>)
            address == indirect[k] + (IF mode = "RelativeMode" THEN rb ELSE 0)
            v == Index(indirect, address).v
            immediate == [indirect EXCEPT
                            ![0] = ModeWord(opcode, IF k = 1 THEN 1 ELSE d1,
                                                    IF k = 2 THEN 1 ELSE d2),
                            ![k] = v]
            image == [i \in {0, 1} |-> IF i = 0 THEN immediate ELSE indirect]
        IN  /\ memory = image
            /\ iptr = [i \in {0, 1} |-> 0]
            /\ rbase = [i \in {0, 1} |-> rb]
            /\ thread = [i \in {0, 1} |-> "running"]
            /\ computer_input = [i \in {0, 1} |-> <<>>]
            /\ computer_output = [i \in {0, 1} |-> <<>>]
            /\ computer_halted = [i \in {0, 1} |-> <<>>]
            /\ wait_output = [i \in {0, 1} |-> <<>>]
            /\ WaitingOnInput = [i \in {0, 1} |-> FALSE]
            /\ handle = [i \in {0, 1} |-> TRUE]
            /\ trace = [i \in {0, 1} |-> EmptyTrace]
            /\ call = NoCall
            /\ drv = [pc |-> "test", k |-> k, rbase |-> rb, image |-> image,
                      stepped |-> [i \in {0, 1} |-> FALSE]]

\* the one pass of instance i
ModeStep(i) ==
    /\ thread[i] = "running"
    /\ ~drv.stepped[i]
    /\ EngineEffect(i, Execute(memory[i], iptr[i], rbase[i]))
    /\ drv' = [drv EXCEPT !.stepped[i] = TRUE]
    /\ UNCHANGED <<computer_input, WaitingOnInput, handle, call>>

ModeNext == \E i \in ICs : ModeStep(i)

ModeSpec == ModeInit /\ [][ModeNext]_vars

-----------------------------------------------------------------------------
(* MemorySpec: a Memory on its own, read and written at addresses and with  *)
(* values drawn from small sets, as test_memory does.  `call` holds the     *)
(* last access, with the Memory as it was before it; trace[0].written is   *)
(* the set of addresses written so far.                                    *)

MemAddresses == {-1, 0, 1000, 985237621}

MemValues == {0, 123, 72346571}

MemoryInit ==
    /\ memory = [i \in {0} |-> EmptyMemory]
    /\ iptr = [i \in {0} |-> 0]
    /\ rbase = [i \in {0} |-> 0]
    /\ thread = [i \in {0} |-> "none"]
    /\ computer_input = [i \in {0} |-> <<>>]
    /\ computer_output = [i \in {0} |-> <<>>]
    /\ computer_halted = [i \in {0} |-> <<>>]
    /\ wait_output = [i \in {0} |-> <<>>]
    /\ WaitingOnInput = [i \in {0} |-> FALSE]
    /\ handle = [i \in {0} |-> FALSE]
    /\ trace = [i \in {0} |-> [written |-> {}]]
    /\ call = [op |-> "none", ok |-> TRUE, index |-> 0, v |-> 0,
               before |-> EmptyMemory]
    /\ drv = [pc |-> "test"]

\* memory[index] as a value
MemoryRead(index) ==
    /\ drv.pc = "test"
    /\ LET r == Index(memory[0], index) IN
       /\ call' = [op |-> "index", ok |-> r.ok, index |-> index, v |-> r.v,
                   before |-> memory[0]]
       /\ drv' = [drv EXCEPT !.pc = IF r.ok THEN "test" ELSE "panicked"]
    /\ memory' = [memory EXCEPT ![0] = IndexKeeps(@, index)]
    /\ UNCHANGED <<iptr, rbase, thread, computer_input, computer_output,
                   computer_halted, wait_output, WaitingOnInput, handle, trace>>

\* memory[index] = v
MemoryWrite(index, v) ==
    /\ drv.pc = "test"
    /\ LET w == IndexMutAssign(memory[0], index, v) IN
       /\ call' = [op |-> "index_mut", ok |-> w.ok, index |-> index, v |-> v,
                   before |-> memory[0]]
       /\ drv' = [drv EXCEPT !.pc = IF w.ok THEN "test" ELSE "panicked"]
       /\ memory' = [memory EXCEPT ![0] = w.memory]
       /\ trace' = [trace EXCEPT ![0].written =
                                    IF w.ok THEN @ \cup {index} ELSE @]
    /\ UNCHANGED <<iptr, rbase, thread, computer_input, computer_output,
                   computer_halted, wait_output, WaitingOnInput, handle>>

MemoryNext ==
    \/ \E index \in MemAddresses : MemoryRead(index)
    \/ \E index \in MemAddresses, v \in MemValues : MemoryWrite(index, v)

MemorySpec == MemoryInit /\ [][MemoryNext]_vars

-----------------------------------------------------------------------------
(* ResolveSpec: test_relative_mode.  A Memory on its own is written at a    *)
(* few addresses, the operand in cell 0, and get_value is called on it in  *)
(* every mode with a relative base of 0 or 50.  The test's value           *)
(* 873645927183645 is beyond TLC's integers; 8736 stands for it.           *)

ResolveAddresses == {0, 43, 50}

ResolveValues == {-7, 43, 50, 8736}

ResolveBases == {0, 50}

ParameterModes == {"PositionMode", "ImmediateMode", "RelativeMode"}

\* get_value(&memory, iptr, param_mode, rbase)
ResolveGet(ip, param_mode, rb) ==
    /\ drv.pc = "test"
    /\ LET r == get_value(memory[0], ip, param_mode, rb) IN
       /\ call' = [op |-> "get_value", ok |-> r.ok, index |-> ip, v |-> r.v,
                   before |-> memory[0], param_mode |-> param_mode, rbase |-> rb]
       /\ drv' = [drv EXCEPT !.pc = IF r.ok THEN "test" ELSE "panicked"]
    /\ UNCHANGED <<memory, iptr, rbase, thread, computer_input, computer_output,
                   computer_halted, wait_output, WaitingOnInput, handle, trace>>

ResolveNext ==
    \/ \E index \in ResolveAddresses, v \in ResolveValues : MemoryWrite(index, v)
    \/ \E param_mode \in ParameterModes, rb \in ResolveBases :
           ResolveGet(0, param_mode, rb)

ResolveSpec == MemoryInit /\ [][ResolveNext]_vars

-----------------------------------------------------------------------------
(* DecodeSpec: the fetch and decode at the head of the loop of             *)
(* intcode_program, on its own, over instruction words drawn from a set:   *)
(* every mode part up to three digits, some of four and more, and negative *)
(* words.  `call` holds what the decode gave.                              *)

DecodeModeParts == (0..222) \cup {1000, 1002, 2101, 2222, 9999, 10000, 12012, 99999}

DecodeOpcodes == {2, 3, 99}

DecodeWords ==
    {100 * m + op : m \in DecodeModeParts, op \in DecodeOpcodes}
    \cup {-1, -99, -100, -101, -1234, -21002}

DecodeInit ==
    /\ \E w \in DecodeWords : Spawned({0}, [i \in {0} |-> <<w>>])
    /\ drv = [pc |-> "fetch", ic |-> 0]

\* let opcode = memory[iptr] % 100;
\* let param_modes = get_parameter_modes_from_opcode(memory[iptr] / 100);
Decode(i) ==
    /\ thread[i] = "running"
    /\ drv.pc = "fetch"
    /\ LET word == Index(memory[i], iptr[i])
           opcode == RustRem(word.v, 100)
           param_modes == get_parameter_modes_from_opcode(RustDiv(word.v, 100))
       IN  /\ call' = [n |-> call.n + 1, op |-> "decode", ic |-> i,
                       ok |-> param_modes.ok,
                       v |-> [opcode |-> opcode, param_modes |-> param_modes.modes]]
           /\ thread' = [thread EXCEPT
                          ![i] = IF param_modes.ok THEN "running" ELSE "panic_modes"]
    /\ memory' = [memory EXCEPT ![i] = IndexKeeps(@, iptr[i])]
    /\ drv' = [drv EXCEPT !.pc = "decoded"]
    /\ UNCHANGED <<iptr, rbase, computer_input, computer_output, computer_halted,
                   wait_output, WaitingOnInput, handle, trace>>

DecodeNext == \E i \in ICs : Decode(i)

DecodeSpec == DecodeInit /\ [][DecodeNext]_vars

-----------------------------------------------------------------------------
(* PipelineSpec: run_amplifier_chain on the first case of                  *)
(* test_amplifier_programs.                                                *)

PipelineProgram ==
    <<3, 15, 3, 16, 1002, 16, 10, 16, 1, 16, 15, 15, 4, 15, 99, 0, 0>>

PipelinePhases == [i \in 0..4 |-> 4 - i]

None == [some |-> FALSE, v |-> 0]

Some(v) == [some |-> TRUE, v |-> v]

\* the driver after a method that panics on failure
OrPanic(pc) == IF call'.ok THEN pc ELSE "panicked"

PipelineInit ==
    /\ Spawned(0..4, [i \in 0..4 |-> PipelineProgram])
    /\ drv = [pc |-> "phase", k |-> 0, v |-> 0, result |-> None]

\* ic0.send(p1); ... ic4.send(p5);
PipeSendPhase ==
    /\ drv.pc = "phase"
    /\ send(drv.k, PipelinePhases[drv.k])
    /\ drv' = [drv EXCEPT !.pc = OrPanic(IF drv.k = 4 THEN "signal" ELSE "phase"),
                          !.k = IF drv.k = 4 THEN 0 ELSE drv.k + 1]

\* ic0.send(0);
PipeSendSignal ==
    /\ drv.pc = "signal"
    /\ send(0, 0)
    /\ drv' = [drv EXCEPT !.pc = OrPanic("recv")]

\* the ic<k>.recv() that is the argument of the next send, or of the return
PipeRecv ==
    /\ drv.pc = "recv"
    /\ recv(drv.k)
    /\ drv' = [drv EXCEPT
                 !.pc = OrPanic(IF drv.k = 4 THEN "returned" ELSE "send"),
                 !.v = call'.v,
                 !.k = IF drv.k = 4 THEN 4 ELSE drv.k + 1,
                 !.result = IF drv.k = 4 /\ call'.ok THEN Some(call'.v) ELSE @]

\* ic<k>.send(...)
PipeSend ==
    /\ drv.pc = "send"
    /\ send(drv.k, drv.v)
    /\ drv' = [drv EXCEPT !.pc = OrPanic("recv")]

PipelineNext ==
    \/ \E i \in ICs : EngineRun(i)
    \/ \E i \in ICs : EngineReceive(i)
    \/ \E i \in ICs : EngineReturn(i)
    \/ PipeSendPhase
    \/ PipeSendSignal
    \/ PipeRecv
    \/ PipeSend

PipelineSpec == PipelineInit /\ [][PipelineNext]_vars

-----------------------------------------------------------------------------
(* FeedbackSpec: run_amplifier_chain_feedback on the first case of         *)
(* test_amplifier_with_feedback_programs.                                  *)

FeedbackProgram ==
    <<3, 26, 1001, 26, -4, 26, 3, 27, 1002, 27, 2, 27, 1, 27, 26, 27, 4, 27,
      1001, 28, -1, 28, 1005, 28, 6, 99, 0, 0, 5>>

FeedbackPhases == [i \in 0..4 |-> 9 - i]

FeedbackInit ==
    /\ Spawned(0..4, [i \in 0..4 |-> FeedbackProgram])
    /\ drv = [pc |-> "phase", k |-> 0, v |-> 0,
              last_output_from_last_amplifier |-> None, result |-> None]

\* ic0.send(p1); ... ic4.send(p5);
FbSendPhase ==
    /\ drv.pc = "phase"
    /\ send(drv.k, FeedbackPhases[drv.k])
    /\ drv' = [drv EXCEPT !.pc = OrPanic(IF drv.k = 4 THEN "signal" ELSE "phase"),
                          !.k = IF drv.k = 4 THEN 0 ELSE drv.k + 1]

\* ic0.send(0); and into the loop
FbSendSignal ==
    /\ drv.pc = "signal"
    /\ send(0, 0)
    /\ drv' = [drv EXCEPT !.pc = OrPanic("check"), !.k = 1]

\* if ic<k>.halted() { return last_output_from_last_amplifier.unwrap(); }
FbCheckHalted ==
    /\ drv.pc = "check"
    /\ halted(drv.k)
    /\ LET last == drv.last_output_from_last_amplifier IN
       drv' = IF call'.ok
              THEN IF last.some
                   THEN [drv EXCEPT !.pc = "returned", !.result = last]
                   ELSE [drv EXCEPT !.pc = "panicked"]
              ELSE IF drv.k = 0
                   THEN [drv EXCEPT !.pc = "send", !.v = last.v]
                   ELSE [drv EXCEPT !.pc = "recv"]

\* the ic<k-1>.recv() that is the argument of ic<k>.send, k = 1..4
FbRecv ==
    /\ drv.pc = "recv"
    /\ recv(drv.k - 1)
    /\ drv' = [drv EXCEPT !.pc = OrPanic("send"), !.v = call'.v]

\* ic<k>.send(...)
FbSend ==
    /\ drv.pc = "send"
    /\ send(drv.k, drv.v)
    /\ drv' = [drv EXCEPT
                 !.pc = OrPanic(IF drv.k = 4 THEN "recv_last" ELSE "check"),
                 !.k = IF drv.k = 4 THEN 4 ELSE drv.k + 1]

\* last_output_from_last_amplifier = Some(ic4.recv());
FbRecvLast ==
    /\ drv.pc = "recv_last"
    /\ recv(4)
    /\ drv' = [drv EXCEPT
                 !.pc = OrPanic("check"),
                 !.k = 0,
                 !.last_output_from_last_amplifier =
                     IF call'.ok THEN Some(call'.v) ELSE @]

FeedbackNext ==
    \/ \E i \in ICs : EngineRun(i)
    \/ \E i \in ICs : EngineReceive(i)
    \/ \E i \in ICs : EngineReturn(i)
    \/ FbSendPhase
    \/ FbSendSignal
    \/ FbCheckHalted
    \/ FbRecv
    \/ FbSend
    \/ FbRecvLast

FeedbackSpec == FeedbackInit /\ [][FeedbackNext]_vars

-----------------------------------------------------------------------------
(* InteractiveSpec: the hull-painting loop of day11.rs main, over robot    *)
(* programs that take one camera value and answer with a colour and a turn. *)

MaxRounds == 2

\* `rounds` rounds of: in, out (1 if the panel is black else 0), out 1; halt
RobotProgram(rounds) ==
    <<3, 20, 108, 0, 20, 21, 4, 21, 104, 1, 1001, 22, -1, 22, 1005, 22, 0, 99,
      0, 0, 0, 0, rounds>>

RobotPrograms == {RobotProgram(n) : n \in 1..MaxRounds} \cup {
    \* in, out 1, halt: the second value of the pair never comes
    <<3, 7, 104, 1, 99, 0, 0, 0>>
}

\* Grid::get
GridGet(panels, x, y) == IF <<x, y>> \in DOMAIN panels THEN panels[<<x, y>>] ELSE 0

\* Grid::set
GridSet(panels, x, y, v) ==
    [c \in (DOMAIN panels) \cup {<<x, y>>} |-> IF c = <<x, y>> THEN v ELSE panels[c]]

TurnLeft(d) ==
    IF d = "North" THEN "West"
    ELSE IF d = "East" THEN "North"
    ELSE IF d = "South" THEN "East"
    ELSE "South"

TurnRight(d) ==
    IF d = "North" THEN "East"
    ELSE IF d = "East" THEN "South"
    ELSE IF d = "South" THEN "West"
    ELSE "North"

Turn(d, turn_direction) ==
    IF turn_direction = 0 THEN TurnLeft(d)
    ELSE IF turn_direction = 1 THEN TurnRight(d)
    ELSE d

ForwardX(x, d) == IF d = "East" THEN x + 1 ELSE IF d = "West" THEN x - 1 ELSE x

ForwardY(y, d) == IF d = "North" THEN y - 1 ELSE IF d = "South" THEN y + 1 ELSE y

InteractiveInit ==
    /\ \E p \in RobotPrograms : Spawned({0}, [i \in {0} |-> p])
    /\ drv = [pc |-> "loop", x |-> 0, y |-> 0, d |-> "North",
              panels |-> GridSet([c \in {} |-> 0], 0, 0, 1),
              robot_over_color |-> 0, paint_color |-> 0,
              applied |-> <<>>]

\* let robot_over_color = panels.get(x, y); if ic.halted() { break; }
RobotCheckHalted ==
    /\ drv.pc = "loop"
    /\ halted(0)
    /\ drv' = [drv EXCEPT !.robot_over_color = GridGet(drv.panels, drv.x, drv.y),
                          !.pc = IF call'.ok THEN "done" ELSE "send"]

\* ic.send(robot_over_color as i64);
RobotSend ==
    /\ drv.pc = "send"
    /\ send(0, drv.robot_over_color)
    /\ drv' = [drv EXCEPT !.pc = OrPanic("recv_paint")]

\* let paint_color = ic.recv2(); if paint_color.is_err() { break; }
RobotRecvPaint ==
    /\ drv.pc = "recv_paint"
    /\ recv2(0)
    /\ drv' = [drv EXCEPT !.pc = IF call'.ok THEN "recv_turn" ELSE "done",
                          !.paint_color = IF call'.ok THEN call'.v ELSE @]

\* let turn_direction = ic.recv2(); if turn_direction.is_err() { break; }
\* and the rest of the loop body: paint, turn, move
RobotRecvTurn ==
    /\ drv.pc = "recv_turn"
    /\ recv2(0)
    /\ drv' = IF ~call'.ok
              THEN [drv EXCEPT !.pc = "done"]
              ELSE LET d == Turn(drv.d, call'.v) IN
                   [drv EXCEPT
                      !.pc = "loop",
                      !.panels = GridSet(drv.panels, drv.x, drv.y, drv.paint_color),
                      !.d = d,
                      !.x = ForwardX(drv.x, d),
                      !.y = ForwardY(drv.y, d),
                      !.applied = @ \o <<drv.paint_color, call'.v>>]

InteractiveNext ==
    \/ \E i \in ICs : EngineStep(i)
    \/ \E i \in ICs : EngineReceive(i)
    \/ \E i \in ICs : EngineReturn(i)
    \/ RobotCheckHalted
    \/ RobotSend
    \/ RobotRecvPaint
    \/ RobotRecvTurn

InteractiveSpec == InteractiveInit /\ [][InteractiveNext]_vars

-----------------------------------------------------------------------------
(* Properties of one instance and its handle, under Spec.                  *)

IsPrefix(s, t) == Len(s) <= Len(t) /\ SubSeq(t, 1, Len(s)) = s

\* a step in which method op of instance i returns
Returns(op, i) == call'.n # call.n /\ call'.op = op /\ call'.ic = i

\* C1: once a call to halted() has returned true, every later call to
\* halted() on the same handle returns true; and a call returns true only
\* after the halt notification was sent.
C1_HaltedIdempotent ==
    \A i \in ICs :
        (call.op = "halted" /\ call.ic = i) =>
            /\ call.ok => trace[i].halts > 0
            /\ trace[i].halted_true > 0 => call.ok

\* C2: the halt notification is sent at most once per instance, and it has
\* been sent exactly when the engine has executed opcode 99: never by an
\* engine that is running, blocked in its receive, or aborted.
C2_HaltNotifiedOnceOnly99 ==
    \A i \in ICs :
        /\ trace[i].halts <= 1
        /\ Len(computer_halted[i]) <= trace[i].halts
        /\ trace[i].halts = 1 <=> thread[i] \in {"halting", "returned"}
        /\ trace[i].halts = 1 => RustRem(Index(memory[i], iptr[i]).v, 100) = 99
        /\ thread[i] \in PanicKinds \cup {"running", "receiving"} =>
               computer_halted[i] = <<>>

C2_Witness ==
    \E i \in ICs :
        /\ thread[i] = "returned"
        /\ trace[i].halts = 1
        /\ trace[i].emitted # <<>>

\* C3: a receive on the output port of an instance that has executed opcode
\* 99 does not hang: it returns (the queued values first, the failure once
\* the queue is empty and the thread is gone), and a receive fails only when
\* the engine thread is gone and every emitted value has been delivered.
C3_RecvAfterHaltReturns ==
    /\ [](\A i \in ICs :
            (call.op = "recv" /\ call.ic = i /\ ~call.ok) =>
                (~Alive(i) /\ trace[i].received = trace[i].emitted))
    /\ (drv.pc = "recv" /\ thread[drv.ic] \in {"halting", "returned"})
           ~> (drv.pc # "recv")

C3_Witness ==
    /\ call.op = "recv"
    /\ ~call.ok
    /\ thread[call.ic] = "returned"
    /\ Len(trace[call.ic].received) >= 2

\* C8: while the WaitingOnInput flag is set, waiting_on_input() returns true
\* and takes nothing from the notification channel; a call that returns true
\* sets it; send() clears it, after which the answer comes from the channel
\* alone; nothing else changes the flag.
C8_WaitingOnInputSticky ==
    [][\A i \in ICs :
        /\ (Returns("waiting_on_input", i) /\ WaitingOnInput[i]) =>
               (call'.ok /\ wait_output'[i] = wait_output[i] /\ WaitingOnInput'[i])
        /\ (Returns("waiting_on_input", i) /\ ~WaitingOnInput[i]) =>
               (call'.ok <=> wait_output[i] # <<>>)
        /\ Returns("waiting_on_input", i) => (call'.ok <=> WaitingOnInput'[i])
        /\ Returns("send", i) => ~WaitingOnInput'[i]
        /\ WaitingOnInput'[i] # WaitingOnInput[i] =>
               (Returns("waiting_on_input", i) \/ Returns("send", i))
      ]_vars

\* two calls answered true from a single notification
C8_Witness ==
    \E i \in ICs :
        /\ trace[i].waiting_true >= 2
        /\ trace[i].waits = 1
        /\ call.op = "waiting_on_input"

\* C9: every execution of opcode 3 has sent exactly one blocked-on-input
\* notification, and sent it before taking its input value: the number sent
\* is the number of values consumed, plus one while the engine is inside the
\* receive (or died in it).
C9_OneNotificationPerInput ==
    \A i \in ICs :
        /\ trace[i].waits = Len(trace[i].consumed)
               + Truth(thread[i] \in {"receiving", "panic_recv"})
        /\ Len(wait_output[i]) <= trace[i].waits

\* the notification went out although an input value was already queued
C9_Witness ==
    \E i \in ICs :
        /\ thread[i] = "receiving"
        /\ computer_input[i] # <<>>
        /\ trace[i].waits = 2

\* C10: the values stored by opcode 3 are, in order, the first values passed
\* to send(); the values the driver received are, in order, the first values
\* emitted by opcode 4; nothing is lost or duplicated on the way.
C10_Fifo ==
    \A i \in ICs :
        /\ IsPrefix(trace[i].stored, trace[i].consumed)
        /\ IsPrefix(trace[i].consumed, trace[i].sent)
        /\ IsPrefix(trace[i].received, trace[i].emitted)
        /\ Alive(i) => trace[i].sent = trace[i].consumed \o computer_input[i]
        /\ handle[i] => trace[i].emitted = trace[i].received \o computer_output[i]

C10_Witness ==
    \E i \in ICs :
        /\ Len(trace[i].stored) = 2
        /\ trace[i].stored[1] # trace[i].stored[2]
        /\ Len(trace[i].received) = 2

\* C11: try_recv() never blocks: the driver can always complete it, whatever
\* the engine thread is doing or however it ended; with a value queued it
\* takes and returns the oldest one, and with none queued it returns None
\* and changes nothing.
C11_TryRecvNeverBlocks ==
    /\ [](\A i \in ICs : CanCall(i) => ENABLED DrvTryRecv(i))
    /\ [][\A i \in ICs : Returns("try_recv", i) =>
            /\ computer_output[i] # <<>> =>
                   /\ call'.ok
                   /\ call'.v = Head(computer_output[i])
                   /\ computer_output'[i] = Tail(computer_output[i])
            /\ computer_output[i] = <<>> =>
                   /\ ~call'.ok
                   /\ UNCHANGED <<memory, iptr, rbase, thread, computer_input,
                                  computer_output, computer_halted, wait_output,
                                  WaitingOnInput, handle, drv, trace>>
       ]_vars

\* a value taken from the queue of an instance that aborted
C11_Witness ==
    /\ call.op = "try_recv"
    /\ call.ok
    /\ thread[call.ic] = "panic_index"
    /\ computer_output[call.ic] = <<>>

\* C12: send() never blocks: the driver can always complete it; while the
\* engine thread is alive the value goes to the back of the input queue,
\* however many are queued and whatever the engine is doing; once the thread
\* has ended nothing is queued, the send fails, and the driver panics and
\* calls nothing again.
C12_SendNeverBlocks ==
    /\ [](\A i \in ICs : CanCall(i) =>
              \A v \in InputValues : ENABLED DrvSend(i, v))
    /\ [][\A i \in ICs : Returns("send", i) =>
            /\ Alive(i) =>
                   /\ call'.ok
                   /\ computer_input'[i] = Append(computer_input[i], call'.v)
                   /\ drv'.pc = drv.pc
            /\ ~Alive(i) =>
                   /\ ~call'.ok
                   /\ computer_input' = computer_input
                   /\ drv'.pc = "panicked"
       ]_vars
    /\ [][drv.pc = "panicked" => (drv' = drv /\ call' = call)]_vars

\* a send that failed on an instance that had halted, after one that went
\* through
C12_Witness ==
    /\ call.op = "send"
    /\ ~call.ok
    /\ drv.pc = "panicked"
    /\ thread[call.ic] = "returned"
    /\ trace[call.ic].sent # <<>>

\* C13: join returns only once the engine thread has ended, and returns a
\* Memory only if the thread executed opcode 99; that Memory is the engine's
\* memory at opcode 99, which nothing changes afterwards, and which differs
\* from the loaded program only by the single-address writes of the engine.
C13_JoinReturnsFinalMemory ==
    /\ [](call.op = "join" =>
             /\ ~Alive(call.ic)
             /\ call.ok <=> thread[call.ic] = "returned"
             /\ call.ok =>
                    /\ trace[call.ic].halts = 1
                    /\ RustRem(Index(memory[call.ic], iptr[call.ic]).v, 100) = 99
                    /\ call.v = memory[call.ic])
    /\ [][\A i \in ICs :
            /\ thread[i] \in {"halting", "returned"} => memory'[i] = memory[i]
            /\ memory'[i] # memory[i] =>
                   /\ thread[i] \in {"running", "receiving"}
                   /\ \E a \in DOMAIN memory'[i] :
                          memory'[i] = IndexMutAssign(memory[i], a, memory'[i][a]).memory
       ]_vars

\* join returned a Memory that holds two stored inputs
C13_Witness ==
    /\ call.op = "join"
    /\ call.ok
    /\ Len(trace[call.ic].stored) = 2
    /\ call.v # LoadProgram(<<3, 11, 4, 11, 3, 12, 4, 12, 104, 7, 99, 0, 0>>)

\* the address an operand cell names in a mode (none, hence 0, in Immediate)
AddressOf(mem, ip, mode, rb) ==
    IF mode = "PositionMode" THEN Index(mem, ip).v
    ELSE IF mode = "RelativeMode" THEN Index(mem, ip).v + rb
    ELSE 0

Operands(opcode) ==
    IF opcode \in {1, 2, 7, 8} THEN 3
    ELSE IF opcode \in {5, 6} THEN 2
    ELSE IF opcode \in {3, 4, 9} THEN 1
    ELSE 0

\* the instruction at ip is fetched from, reads or writes a negative address
NegativeAddress(mem, ip, rb) ==
    \/ ip < 0
    \/ /\ ip >= 0
       /\ LET word == Index(mem, ip).v
              pm == get_parameter_modes_from_opcode(RustDiv(word, 100))
          IN  /\ pm.ok
              /\ \E k \in 1..Operands(RustRem(word, 100)) :
                     AddressOf(mem, ip + k, pm.modes[k - 1], rb) < 0

\* C16: no stored address is ever negative; an instruction that is fetched
\* from, reads or writes a negative address (directly, through the relative
\* base, or after a jump made iptr negative) panics the engine thread and
\* leaves memory, iptr and rbase as they were; and the thread panics on an
\* index only at such an instruction.
C16_NegativeAddressFatal ==
    /\ [](\A i \in ICs :
            /\ \A a \in DOMAIN memory[i] : a >= 0
            /\ (thread[i] = "running"
                   /\ NegativeAddress(memory[i], iptr[i], rbase[i])
                   /\ RustRem(Index(memory[i], iptr[i]).v, 100) # 3) =>
                  Execute(memory[i], iptr[i], rbase[i]).kind = "panic_index"
            /\ (thread[i] = "receiving"
                   /\ NegativeAddress(memory[i], iptr[i], rbase[i])) =>
                  \A v \in InputValues :
                      StoreInput(memory[i], iptr[i], rbase[i], v).kind = "panic_index"
            /\ thread[i] = "panic_index" =>
                  NegativeAddress(memory[i], iptr[i], rbase[i]))
    /\ [][\A i \in ICs :
            /\ (thread[i] \in {"running", "receiving"}
                   /\ NegativeAddress(memory[i], iptr[i], rbase[i])
                   /\ thread'[i] # thread[i]) =>
                  thread'[i] \in {"panic_index", "receiving", "panic_recv"}
            /\ thread'[i] \in PanicKinds =>
                  <<memory'[i], iptr'[i], rbase'[i]>> = <<memory[i], iptr[i], rbase[i]>>
       ]_vars

\* the abort of a Relative read whose operand plus the relative base is -5
C16_Witness ==
    \E i \in ICs :
        /\ thread[i] = "panic_index"
        /\ rbase[i] = -5
        /\ AddressOf(memory[i], iptr[i] + 1, "RelativeMode", rbase[i]) = -5

\* the engine thread of instance i took a step
EngineChanged(i) ==
    <<memory'[i], iptr'[i], rbase'[i], thread'[i]>>
        # <<memory[i], iptr[i], rbase[i], thread[i]>>

\* C17: a step of the engine of instance i, a panic included, leaves the
\* memory, iptr, rbase and thread of every other instance as they were;
\* beside an instance that panicked, one whose thread is running can take its
\* next pass and one that is receiving with a value queued can store it; and
\* the vector the caller passed a clone of is never changed.
C17_InstancesIsolated ==
    /\ [](\A i, j \in ICs :
            (i # j /\ thread[i] \in PanicKinds) =>
                /\ thread[j] = "running" => ENABLED EngineStep(j)
                /\ (thread[j] = "receiving" /\ computer_input[j] # <<>>) =>
                      ENABLED EngineReceive(j))
    /\ [][/\ \A i, j \in ICs :
               (i # j /\ EngineChanged(i)) => ~EngineChanged(j)
          /\ drv'.program = drv.program
       ]_vars

\* instance 0 aborted on a negative address after overwriting its own cell
\* 0, and instance 1, on the same program vector, ran to its halt on its own copy
C17_Witness ==
    /\ thread[0] = "panic_index"
    /\ thread[1] = "returned"
    /\ trace[1].emitted = <<6>>
    /\ memory[0][0] # drv.program[0][1]
    /\ memory[1][0] = drv.program[1][1]

-----------------------------------------------------------------------------
(* Properties of the drivers.                                              *)

Last(q) == q[Len(q)]

\* C4: whenever run_amplifier_chain_feedback returns, it returns the last
\* value received from ic4, which is the last value ic4 ever emits; on the
\* test's program and phases that value is 139629729.
C4_FeedbackResult ==
    drv.pc = "returned" =>
        /\ drv.result.some
        /\ drv.result.v = 139629729
        /\ drv.result.v = Last(trace[4].received)
        /\ drv.result.v = Last(trace[4].emitted)

C4_Witness ==
    /\ drv.pc = "returned"
    /\ drv.result = Some(139629729)
    /\ \A i \in ICs : thread[i] = "returned"

\* C5: in the feedback network the driver never has a send or a receive
\* fail on an instance that has terminated, and so never ends otherwise than
\* by returning the result.
C5_FeedbackNeverFails ==
    /\ drv.pc # "panicked"
    /\ ~(call.op \in {"send", "recv"} /\ ~call.ok)

\* C6: in run_amplifier_chain every instance consumes its phase setting
\* first and its signal second, the driver hands over exactly one value per
\* hop, no call fails, and the value returned is 43210 whatever the
\* interleaving.
C6_PipelineResult ==
    /\ drv.pc # "panicked"
    /\ drv.pc = "returned" => drv.result = Some(43210)
    /\ \A i \in ICs :
          /\ Len(trace[i].sent) <= 2
          /\ Len(trace[i].received) <= 1
          /\ Len(trace[i].consumed) >= 1 => trace[i].consumed[1] = PipelinePhases[i]
          /\ Len(trace[i].consumed) = 2 =>
                trace[i].consumed[2] =
                    (IF i = 0 THEN 0 ELSE Last(trace[i - 1].received))

C6_Witness ==
    /\ drv.pc = "returned"
    /\ drv.result = Some(43210)
    /\ \A i \in ICs : Len(trace[i].stored) = 2 /\ Len(trace[i].received) = 1

\* C7: the interactive loop sends one value per iteration and receives two
\* before the next send, paints and moves only on complete pairs, and, with a
\* program that halts, ends by leaving the loop, never by a panic.
C7_InteractiveLoopEndsNormally ==
    /\ drv.pc # "panicked"
    /\ IsPrefix(drv.applied, trace[0].received)
    /\ Len(trace[0].received) - Len(drv.applied) \in {0, 1}
    /\ Len(trace[0].sent) * 2 >= Len(trace[0].received)

-----------------------------------------------------------------------------
(* Properties of Memory, under MemorySpec.                                 *)

\* C14: a read of a non-negative address succeeds and leaves the Memory as it
\* was; if the address was never written it returns 0; the stored addresses
\* are exactly the addresses written.
C14_ReadNeverMaterializes ==
    /\ DOMAIN memory[0] = trace[0].written
    /\ (call.op = "index" /\ call.index >= 0) =>
           /\ call.ok
           /\ memory[0] = call.before
           /\ call.index \notin trace[0].written => call.v = 0
           /\ call.index \in trace[0].written => call.v = memory[0][call.index]

\* with only 1000 written, the read of 985237621 gave 0 and stored nothing
C14_Witness ==
    /\ call.op = "index"
    /\ call.index = 985237621
    /\ call.v = 0
    /\ DOMAIN memory[0] = {1000}
    /\ memory[0][1000] = 123

\* C15: after a write of v at a non-negative address, a read of that address
\* returns v, every other address reads as before, and the number of stored
\* addresses has grown by one if the address was absent and not at all
\* otherwise.
C15_WriteReadRoundTrip ==
    (call.op = "index_mut" /\ call.index >= 0) =>
        /\ call.ok
        /\ Index(memory[0], call.index) = [ok |-> TRUE, v |-> call.v]
        /\ \A a \in (MemAddresses \cup {1, 999, 1001, 19125}) \ {call.index} :
               Index(memory[0], a) = Index(call.before, a)
        /\ Cardinality(DOMAIN memory[0]) =
               Cardinality(DOMAIN call.before)
                   + (IF call.index \in DOMAIN call.before THEN 0 ELSE 1)

\* the last write of test_memory: a third address, far from the others
C15_Witness ==
    /\ call.op = "index_mut"
    /\ call.index = 985237621
    /\ call.v = 72346571
    /\ DOMAIN call.before = {0, 1000}
    /\ Cardinality(DOMAIN memory[0]) = 3

-----------------------------------------------------------------------------
(* Properties of whole programs.                                           *)

\* C18: run with no input, the self-replicating program halts; what it has
\* emitted is at every moment a prefix of the program and, once it has
\* halted, the 16 values of the program in order; addresses 0..15 of its
\* memory at the halt, and of the Memory that join returns, hold the program.
C18_Quine ==
    /\ <>(thread[0] = "returned")
    /\ [](/\ IsPrefix(trace[0].emitted, QuineProgram)
          /\ trace[0].consumed = <<>>
          /\ thread[0] \notin PanicKinds
          /\ thread[0] \in {"halting", "returned"} =>
                /\ trace[0].emitted = QuineProgram
                /\ \A a \in 0..15 : Index(memory[0], a).v = QuineProgram[a + 1]
          /\ call.op = "join" =>
                /\ call.ok
                /\ \A a \in 0..15 : Index(call.v, a).v = QuineProgram[a + 1])

C18_Witness ==
    /\ call.op = "join"
    /\ call.ok
    /\ thread[0] = "returned"
    /\ Len(trace[0].emitted) = 16
    /\ computer_output[0] = QuineProgram

\* 2^63 - 1
I64Max == Dec4(<<922, 3372, 368, 5477, 5807>>)

\* a <= b, digit by digit from the most significant
RECURSIVE WLessEq(_, _)
WLessEq(a, b) ==
    IF Len(a) # Len(b) THEN Len(a) < Len(b)
    ELSE IF a = <<>> THEN TRUE
    ELSE IF a[Len(a)] # b[Len(b)] THEN a[Len(a)] < b[Len(b)]
    ELSE WLessEq(SubSeq(a, 1, Len(a) - 1), SubSeq(b, 1, Len(b) - 1))

\* w is an i64 value in its digits
WellFormed(w) ==
    /\ \A k \in 1..Len(w) : w[k] \in 0..9999
    /\ w # <<>> => w[Len(w)] # 0
    /\ WLessEq(w, I64Max)

\* operand k of the instruction at address 0
WideOperand(k) ==
    LET word == FromWide(memory[0][0])
        pm == get_parameter_modes_from_opcode(RustDiv(word, 100)).modes
    IN  WideGetValue(memory[0], k, pm[k - 1], 0)

\* what the instruction at address 0 should give modulo m (m * m within the
\* integers)
WideResidue(m) ==
    LET a == WMod(WideOperand(1), m)
        b == WMod(WideOperand(2), m)
    IN  IF RustRem(FromWide(memory[0][0]), 100) = 1
        THEN (a + b) % m ELSE (a * b) % m

\* how many digits the instruction at address 0 may give
WideLengths ==
    LET la == Len(WideOperand(1))
        lb == Len(WideOperand(2))
        mx == IF la > lb THEN la ELSE lb
    IN  IF RustRem(FromWide(memory[0][0]), 100) = 1
        THEN mx..(mx + 1) ELSE (la + lb - 1)..(la + lb)

\* C19: sums, products, memory cells and the output port keep the whole i64
\* value.  Every value emitted or stored is a well-formed value below 2^63;
\* the value a program emits after an addition or multiplication agrees with
\* the sum or product of its operands modulo 9973, 10007 and 46337 and has
\* a number of digits such a sum or product can have; the value received is the
\* value emitted; 1102,34915192,34915192,7,4,7,99,0 gives 1219070632396864;
\* and 104,1125899906842624,99 gives 1125899906842624.
C19_ValuesKeepSixtyFourBits ==
    LET word == FromWide(memory[0][0])
        opcode == RustRem(word, 100)
        out == trace[0].emitted
    IN  /\ Len(out) <= 1
        /\ \A a \in DOMAIN memory[0] : WellFormed(memory[0][a])
        /\ (call.op = "recv" /\ call.ok) => (out = <<call.v>>)
        /\ (out # <<>> /\ opcode \in {1, 2}) =>
               /\ \A m \in {9973, 10007, 46337} : WMod(out[1], m) = WideResidue(m)
               /\ out[1] = WideIndex(memory[0], FromWide(memory[0][3]))
               /\ Len(out[1]) \in WideLengths
        /\ (out # <<>> /\ opcode = 4) => out[1] = memory[0][1]
        /\ (out # <<>> /\ memory[0] = LoadProgram(
                  <<ToWide(1102), ToWide(34915192), ToWide(34915192), ToWide(7),
                    ToWide(4), ToWide(7), ToWide(99),
                    Dec4(<<1219, 706, 3239, 6864>>)>>)) =>
               out[1] = Dec4(<<1219, 706, 3239, 6864>>)
        /\ (out # <<>> /\ word = 104
                /\ memory[0][1] = Dec4(<<1125, 8999, 684, 2624>>)) =>
               out[1] = Dec4(<<1125, 8999, 684, 2624>>)

\* test_16_digit: recv returned 1219070632396864
C19_Witness ==
    /\ call.op = "recv"
    /\ call.ok
    /\ call.v = Dec4(<<1219, 706, 3239, 6864>>)
    /\ memory[0][1] = ToWide(34915192)
    /\ memory[0][2] = ToWide(34915192)
    /\ FromWide(memory[0][0]) = 1102

-----------------------------------------------------------------------------
(* Properties of the addressing modes, under ModeSpec.                     *)

\* both memories have run the instruction
BothStepped == drv.stepped[0] /\ drv.stepped[1]

\* The two runs ended alike: same thread state, iptr, rbase and output, and
\* the same value at every address, except that the opcode word and the cell
\* of operand k may each still hold what they were drawn with.
SameNextState ==
    /\ thread[0] = thread[1]
    /\ iptr[0] = iptr[1]
    /\ rbase[0] = rbase[1]
    /\ trace[0].emitted = trace[1].emitted
    /\ computer_output[0] = computer_output[1]
    /\ \A a \in (DOMAIN memory[0]) \cup (DOMAIN memory[1]) :
          \/ Index(memory[0], a) = Index(memory[1], a)
          \/ /\ a \in {0, drv.k}
             /\ \A i \in {0, 1} : Index(memory[i], a) = Index(drv.image[i], a)

\* no read operand other than operand k names the address of the opcode
\* word or of the cell of operand k
OtherOperandsApart ==
    LET word == drv.image[1][0]
        pm == get_parameter_modes_from_opcode(RustDiv(word, 100)).modes
    IN  \A j \in 1..Reads(RustRem(word, 100)) :
            (j # drv.k /\ pm[j - 1] # "ImmediateMode") =>
                AddressOf(drv.image[1], j, pm[j - 1], drv.rbase) \notin {0, drv.k}

\* C20 as stated: an instruction run with read operand k in ImmediateMode
\* holding v ends in the same state, with the same output, as the
\* instruction run with operand k in PositionMode or RelativeMode naming an
\* address that holds v.
C20_ModeEquivalence == BothStepped => SameNextState

\* C20, with the proviso it needs: the same, provided no other read operand
\* of the instruction names the address of the opcode word or of the cell of
\* operand k, where the two encodings differ.
C20_ModeEquivalenceApart == (BothStepped /\ OtherOperandsApart) => SameNextState

\* 202,2,4,4,7 with relative base 1 beside 102,4,4,4,7: the first operand
\* is 4, through the relative base or at once, the second is the 7 of cell 4,
\* and both runs store 28 in cell 4
C20_Witness ==
    /\ BothStepped
    /\ OtherOperandsApart
    /\ drv.k = 1
    /\ drv.rbase = 1
    /\ drv.image[1] = LoadProgram(<<202, 2, 4, 4, 7>>)
    /\ drv.image[0] = LoadProgram(<<102, 4, 4, 4, 7>>)
    /\ memory[0][4] = 28
    /\ memory[1][4] = 28


-----------------------------------------------------------------------------
(* Properties of the decoder, under DecodeSpec.                            *)

\* 10^n
RECURSIVE Pow10(_)
Pow10(n) == IF n = 0 THEN 1 ELSE 10 * Pow10(n - 1)

\* the k-th decimal digit, counted from the right, of w / 100, for w >= 0
DigitOf(w, k) == ((w \div 100) \div Pow10(k - 1)) % 10

\* C21: for the word w in the fetched cell the decode gives w % 100 (the
\* remainder with the sign of w) as opcode; it returns whenever w / 100 has
\* at most four digits; when it returns for w >= 0, parameter k = 1, 2, 3 is
\* Position, Immediate or Relative where the k-th digit from the right of
\* w / 100 is 0, 1 or 2, and Position where w / 100 has fewer than k digits;
\* and a decode that returns leaves memory, iptr, rbase, the thread and the
\* channels as they were.
C21_Decoder ==
    /\ [](call.op = "decode" =>
            LET w == memory[0][0]
                pm == call.v.param_modes
            IN  /\ w >= 0 => call.v.opcode = w % 100
                /\ w < 0 => call.v.opcode = -((-w) % 100)
                /\ w < 1000000 => call.ok
                /\ (call.ok /\ w >= 0) =>
                       \A k \in 1..3 :
                           /\ DigitOf(w, k) = 0 => pm[k - 1] = "PositionMode"
                           /\ DigitOf(w, k) = 1 => pm[k - 1] = "ImmediateMode"
                           /\ DigitOf(w, k) = 2 => pm[k - 1] = "RelativeMode"
                           /\ (w \div 100) < Pow10(k - 1) => pm[k - 1] = "PositionMode")
    /\ [][call'.op = "decode" /\ call'.ok =>
            UNCHANGED <<memory, iptr, rbase, thread, computer_input,
                        computer_output, computer_halted, wait_output,
                        WaitingOnInput, handle, trace>>
       ]_vars

\* 21002: first parameter Position, second Immediate, third Relative
C21_Witness ==
    /\ call.op = "decode"
    /\ call.ok
    /\ memory[0][0] = 21002
    /\ call.v.opcode = 2
    /\ call.v.param_modes[0] = "PositionMode"
    /\ call.v.param_modes[1] = "ImmediateMode"
    /\ call.v.param_modes[2] = "RelativeMode"

-----------------------------------------------------------------------------
(* Properties of operand resolution, under ResolveSpec.                    *)

\* what a Memory holds at a non-negative address
Cell(mem, a) == IF a \in DOMAIN mem THEN mem[a] ELSE 0

\* C22: with raw operand p in cell 0, a Position read gives the value at
\* address p, an Immediate read gives p, and a Relative read gives the value
\* at address p + rbase (each read of a non-negative address succeeds); so
\* with rbase = 0 Relative and Position reads give the same, and with
\* rbase = 50 a Relative operand of -7 gives the value at address 43; and a
\* read leaves the Memory as it was.
C22_ReadOperandResolution ==
    /\ get_value(memory[0], 0, "RelativeMode", 0)
           = get_value(memory[0], 0, "PositionMode", 0)
    /\ call.op = "get_value" =>
           LET p == Cell(call.before, 0) IN
           /\ memory[0] = call.before
           /\ (call.param_mode = "PositionMode" /\ p >= 0) =>
                  (call.ok /\ call.v = Cell(call.before, p))
           /\ call.param_mode = "ImmediateMode" => (call.ok /\ call.v = p)
           /\ (call.param_mode = "RelativeMode" /\ p + call.rbase >= 0) =>
                  (call.ok /\ call.v = Cell(call.before, p + call.rbase))
           /\ (call.param_mode = "RelativeMode" /\ call.rbase = 50 /\ p = -7) =>
                  (call.ok /\ call.v = Cell(call.before, 43))

\* test_relative_mode: memory[43] written, -7 in cell 0, relative base 50
C22_Witness ==
    /\ call.op = "get_value"
    /\ call.param_mode = "RelativeMode"
    /\ call.rbase = 50
    /\ DOMAIN memory[0] = {0, 43}
    /\ memory[0][0] = -7
    /\ memory[0][43] = 8736
    /\ call.v = 8736

-----------------------------------------------------------------------------
(* InstrSpec: an instance spawned on 109,rb followed by one instruction,   *)
(* its operand cells, 99 and a data cell, for every opcode, every mode of  *)
(* each of its operands, operand cells that name the first cell, an        *)
(* operand cell and the data cell, and a negative, a zero and a positive   *)
(* rb; on words that are no instruction; and on the programs of            *)
(* test_intcode_program of day05.rs.  The engine makes at most MaxPasses   *)
(* passes through its loop.  For an input instruction the driver sends one *)
(* value; for the others it calls nothing.  drv.program is the vector the  *)
(* instance was spawned on.                                                *)

MaxPasses == 4

InstrBases == {-1, 0, 2}

InstrCells == {0, 3, 7}

\* words whose opcode part no arm of the match takes
InstrStrayWords == {0, 10, 98, 100, -1, -99, -101}

\* 109,rb; the word and its operands in cells 2..5, unused ones 99; 99; 5
InstrImage(rb, word, operands) ==
    <<109, rb, word>> \o operands \o [k \in 1..(3 - Len(operands)) |-> 99]
        \o <<99, 5>>

Day05Programs == {
    <<1, 0, 0, 0, 99>>,
    <<2, 3, 0, 3, 99>>,
    <<2, 4, 4, 5, 99, 0>>,
    <<1, 1, 1, 4, 99, 5, 6, 0, 99>>,
    <<1002, 4, 3, 4, 33>>
}

InstrPrograms ==
    {InstrImage(rb, op + 100 * d1 + 1000 * d2 + 10000 * d3, <<p1, p2, p3>>) :
        op \in {1, 2, 7, 8}, d1 \in 0..2, d2 \in 0..2, d3 \in 0..2,
        p1 \in InstrCells, p2 \in InstrCells, p3 \in InstrCells,
        rb \in InstrBases}
    \cup {InstrImage(rb, op + 100 * d1 + 1000 * d2, <<p1, p2>>) :
        op \in {5, 6}, d1 \in 0..2, d2 \in 0..2,
        p1 \in InstrCells, p2 \in InstrCells, rb \in InstrBases}
    \cup {InstrImage(rb, op + 100 * d1, <<p1>>) :
        op \in {3, 4, 9}, d1 \in 0..2, p1 \in InstrCells, rb \in InstrBases}
    \cup {InstrImage(rb, w, <<>>) : w \in InstrStrayWords \cup {99}, rb \in InstrBases}
    \cup Day05Programs

InstrInit ==
    \E p \in InstrPrograms :
        /\ Spawned({0}, [i \in {0} |-> p])
        /\ drv = [pc |-> IF p[1] = 109 /\ RustRem(p[3], 100) = 3
                         THEN "start" ELSE "done",
                  ic |-> 0, program |-> p, passes |-> 0]

\* one pass of the engine through its loop
InstrStep(i) ==
    /\ thread[i] = "running"
    /\ drv.passes < MaxPasses
    /\ EngineEffect(i, Execute(memory[i], iptr[i], rbase[i]))
    /\ drv' = [drv EXCEPT !.passes = @ + 1]
    /\ UNCHANGED <<computer_input, WaitingOnInput, handle, call>>

\* ic.send(v), once
InstrSend(i, v) ==
    /\ drv.pc = "start"
    /\ send(i, v)
    /\ drv' = [drv EXCEPT !.pc = OrPanic("done")]

InstrNext ==
    \/ \E i \in ICs : InstrStep(i)
    \/ \E i \in ICs : EngineReceive(i)
    \/ \E i \in ICs : EngineReturn(i)
    \/ \E i \in ICs, v \in InputValues : InstrSend(i, v)

InstrSpec == InstrInit /\ [][InstrNext]_vars

-----------------------------------------------------------------------------
(* Properties of single instructions, under InstrSpec.  The instruction    *)
(* about to execute is read off the state before the step: its word, its   *)
(* opcode part, the mode digit and raw cell of each operand.               *)

\* the word at the instruction pointer
WordAt(i) == Cell(memory[i], iptr[i])

\* w % 100 with the sign of w
OpcodePart(w) == IF w >= 0 THEN w % 100 ELSE -((-w) % 100)

OpcodeAt(i) == OpcodePart(WordAt(i))

\* the mode digit of operand k
DigitAt(i, k) == DigitOf(WordAt(i), k)

\* the raw operand k
RawAt(i, k) == Cell(memory[i], iptr[i] + k)

\* the address operand k names, when its digit is not 1
AddressAt(i, k) ==
    IF DigitAt(i, k) = 2 THEN RawAt(i, k) + rbase[i] ELSE RawAt(i, k)

\* the read of operand k touches no negative address
ReadOk(i, k) == DigitAt(i, k) = 1 \/ AddressAt(i, k) >= 0

\* the resolved value of read operand k
ValueAt(i, k) ==
    IF DigitAt(i, k) = 1 THEN RawAt(i, k) ELSE Cell(memory[i], AddressAt(i, k))

\* the step is a pass of engine i through its loop
Pass(i) == drv'.passes # drv.passes /\ thread[i] = "running"

\* the step is the receive of engine i returning a value
Received(i) == thread[i] = "receiving" /\ thread'[i] # "receiving"

\* mem with value v at address a
Stored(mem, a, v) ==
    [x \in (DOMAIN mem) \cup {a} |-> IF x = a THEN v ELSE mem[x]]

\* the jump at the instruction pointer is taken
Taken(i) ==
    \/ OpcodeAt(i) = 5 /\ ValueAt(i, 1) # 0
    \/ OpcodeAt(i) = 6 /\ ValueAt(i, 1) = 0

\* the step leaves the four channels of instance i as they were
ChannelsUnchanged(i) ==
    /\ computer_input'[i] = computer_input[i]
    /\ computer_output'[i] = computer_output[i]
    /\ computer_halted'[i] = computer_halted[i]
    /\ wait_output'[i] = wait_output[i]

\* C23: a pass that executes opcode 1, 2, 7 or 8, and the store of opcode 3
\* once its value has arrived, change memory at no address other than the
\* one the destination operand names, p for mode digit 0 and p + rbase for
\* mode digit 2, and on completion that address is stored; with mode digit 1
\* on the destination nothing is written and the thread panics.
C23_WriteTargetNeverImmediate ==
    [][\A i \in ICs :
        /\ (Pass(i) /\ OpcodeAt(i) \in {1, 2, 7, 8}) =>
              /\ DigitAt(i, 3) = 1 =>
                     (thread'[i] \in PanicKinds /\ memory'[i] = memory[i])
              /\ thread'[i] = "running" =>
                     /\ DigitAt(i, 3) # 1
                     /\ AddressAt(i, 3) \in DOMAIN memory'[i]
                     /\ \A a \in (DOMAIN memory'[i]) \ {AddressAt(i, 3)} :
                            a \in DOMAIN memory[i] /\ memory'[i][a] = memory[i][a]
              /\ thread'[i] # "running" => memory'[i] = memory[i]
        /\ Received(i) =>
              /\ OpcodeAt(i) = 3
              /\ DigitAt(i, 1) = 1 =>
                     (thread'[i] = "panic_set_value" /\ memory'[i] = memory[i])
              /\ thread'[i] = "running" =>
                     /\ DigitAt(i, 1) # 1
                     /\ memory'[i] = Stored(memory[i], AddressAt(i, 1),
                                            Head(computer_input[i]))
              /\ thread'[i] # "running" => memory'[i] = memory[i]
      ]_vars

\* 109,2 then 11101,3,3,3: the add into an Immediate target stored nothing
\* and the thread panicked in set_value
C23_Witness ==
    /\ thread[0] = "panic_set_value"
    /\ drv.program = InstrImage(2, 11101, <<3, 3, 3>>)
    /\ memory[0] = LoadProgram(drv.program)
    /\ rbase[0] = 2
    /\ drv.passes = 2

\* C24: a completed opcode 1, 2, 7 or 8 leaves the instruction pointer 4
\* higher, a completed opcode 4 or 9, and opcode 3 once its value is stored,
\* 2 higher, an opcode 5 or 6 whose jump is not taken 3 higher; no other
\* opcode completes; and a step that does not complete an instruction (a
\* panic, the halt, the wait for input, a step of the driver) leaves the
\* pointer where it was.
C24_InstructionPointerSteps ==
    [][\A i \in ICs :
        /\ (Pass(i) /\ thread'[i] = "running") =>
              /\ OpcodeAt(i) \in {1, 2, 4, 5, 6, 7, 8, 9}
              /\ OpcodeAt(i) \in {1, 2, 7, 8} => iptr'[i] = iptr[i] + 4
              /\ OpcodeAt(i) \in {4, 9} => iptr'[i] = iptr[i] + 2
              /\ (OpcodeAt(i) \in {5, 6} /\ ~Taken(i)) => iptr'[i] = iptr[i] + 3
        /\ (Received(i) /\ thread'[i] = "running") =>
              (OpcodeAt(i) = 3 /\ iptr'[i] = iptr[i] + 2)
        /\ iptr'[i] # iptr[i] =>
              (thread'[i] = "running" /\ (Pass(i) \/ Received(i)))
      ]_vars

\* 109,0 then 1006,3,7: the operand is 3, the jump is not taken, and the
\* engine went on at 5, a 99
C24_Witness ==
    /\ drv.program = InstrImage(0, 1006, <<3, 7>>)
    /\ iptr[0] = 5
    /\ thread[0] = "returned"
    /\ drv.passes = 3

\* C25: a pass that executes opcode 5 with a # 0, or opcode 6 with a = 0,
\* both operands read at non-negative addresses, completes with the
\* instruction pointer equal to the resolved value b, whatever the pointer
\* was, and with memory, the relative base and the channels as they were.
C25_JumpsAbsolute ==
    [][\A i \in ICs :
        (Pass(i) /\ OpcodeAt(i) \in {5, 6} /\ Taken(i)
              /\ ReadOk(i, 1) /\ ReadOk(i, 2)) =>
            /\ thread'[i] = "running"
            /\ iptr'[i] = ValueAt(i, 2)
            /\ memory'[i] = memory[i]
            /\ rbase'[i] = rbase[i]
            /\ ChannelsUnchanged(i)
      ]_vars

\* 109,2 then 1105,3,7 at address 2: the jump went to 7, not to 2 + 7 or
\* 2 + 3 + 7
C25_Witness ==
    /\ drv.program = InstrImage(2, 1105, <<3, 7>>)
    /\ iptr[0] = 7
    /\ drv.passes = 2
    /\ thread[0] = "running"
    /\ memory[0] = LoadProgram(drv.program)
    /\ rbase[0] = 2

\* C26: a pass that completes opcode 1, 2, 7 or 8 leaves memory as it was
\* but for the destination address, which holds a + b, a * b, 1 if a < b
\* else 0, or 1 if a = b else 0, with a and b the resolved first and second
\* operands in the memory before the pass; the relative base and the four
\* channels are as they were; and the pass completes whenever its reads and
\* its write name non-negative addresses and the destination is not
\* Immediate.
C26_ArithmeticWritesOneCell ==
    [][\A i \in ICs :
        (Pass(i) /\ OpcodeAt(i) \in {1, 2, 7, 8}) =>
            LET a == ValueAt(i, 1)
                b == ValueAt(i, 2)
                v == IF OpcodeAt(i) = 1 THEN a + b
                     ELSE IF OpcodeAt(i) = 2 THEN a * b
                     ELSE IF OpcodeAt(i) = 7 THEN (IF a < b THEN 1 ELSE 0)
                     ELSE (IF a = b THEN 1 ELSE 0)
            IN  /\ (ReadOk(i, 1) /\ ReadOk(i, 2) /\ DigitAt(i, 3) # 1
                       /\ AddressAt(i, 3) >= 0) => thread'[i] = "running"
                /\ thread'[i] = "running" =>
                       /\ memory'[i] = Stored(memory[i], AddressAt(i, 3), v)
                       /\ rbase'[i] = rbase[i]
                       /\ ChannelsUnchanged(i)
      ]_vars

\* 109,-1 then 7,3,7,3: the operands are the 3 of cell 3 and the 5 of cell 7,
\* 3 < 5, and cell 3, the first operand's own cell, now holds 1
C26_Witness ==
    /\ drv.program = InstrImage(-1, 7, <<3, 7, 3>>)
    /\ memory[0] = Stored(LoadProgram(drv.program), 3, 1)
    /\ thread[0] = "returned"
    /\ iptr[0] = 6
    /\ rbase[0] = -1

\* C27: the relative base is 0 before the first pass; a pass that executes
\* opcode 9 with its operand read at a non-negative address completes with
\* the relative base increased by the resolved operand, the instruction
\* pointer by 2, and memory and the channels as they were; no other step
\* changes the relative base; and an instruction after 109,rb reads and
\* writes in Relative mode at its operand plus rb.
C27_RelativeBase ==
    /\ [](\A i \in ICs :
            LET image == LoadProgram(drv.program)
                word == drv.program[3]
                p == drv.program[4]
                rb == drv.program[2]
            IN  /\ drv.passes = 0 => rbase[i] = 0
                /\ (drv.program[1] = 109 /\ drv.passes = 1) => rbase[i] = rb
                /\ (drv.program[1] = 109 /\ word = 204 /\ p + rb >= 0
                       /\ drv.passes >= 2) =>
                      trace[i].emitted[1] = Cell(image, p + rb)
                /\ (drv.program[1] = 109 /\ word = 203 /\ p + rb >= 0
                       /\ trace[i].stored # <<>> /\ drv.passes = 2) =>
                      memory[i] = Stored(image, p + rb, trace[i].stored[1]))
    /\ [][\A i \in ICs :
            /\ (Pass(i) /\ OpcodeAt(i) = 9 /\ ReadOk(i, 1)) =>
                  /\ thread'[i] = "running"
                  /\ rbase'[i] = rbase[i] + ValueAt(i, 1)
                  /\ iptr'[i] = iptr[i] + 2
                  /\ memory'[i] = memory[i]
                  /\ ChannelsUnchanged(i)
            /\ rbase'[i] # rbase[i] => (Pass(i) /\ OpcodeAt(i) = 9)
       ]_vars

\* 109,-1 then 209,3: the operand is read at 3 - 1, where the word 209 is,
\* and the relative base went from -1 to 208
C27_Witness ==
    /\ drv.program = InstrImage(-1, 209, <<3>>)
    /\ rbase[0] = 208
    /\ iptr[0] = 4
    /\ thread[0] = "returned"

\* C28: a pass that fetches a word whose opcode part, w % 100 with the sign
\* of w, is none of 1..9 and 99 (0 and every negative word among them) ends
\* in a panic, the panic of the unrecognized-opcode arm when the fetch and
\* the decode return, with memory, iptr and the relative base as they were,
\* no output and no notification sent; and that arm is reached by such
\* words only.
C28_UnrecognizedOpcodeFatal ==
    [][\A i \in ICs :
        /\ (Pass(i) /\ OpcodeAt(i) \notin (1..9) \cup {99}) =>
              /\ thread'[i] \in PanicKinds
              /\ (iptr[i] >= 0 /\ WordAt(i) < 1000000) =>
                     thread'[i] = "panic_opcode"
              /\ memory'[i] = memory[i]
              /\ iptr'[i] = iptr[i]
              /\ rbase'[i] = rbase[i]
              /\ ChannelsUnchanged(i)
              /\ trace'[i] = trace[i]
        /\ (Pass(i) /\ thread'[i] = "panic_opcode") =>
              OpcodeAt(i) \notin (1..9) \cup {99}
      ]_vars

\* 109,0 then -1: the opcode part is -1, not 99
C28_Witness ==
    /\ drv.program = InstrImage(0, -1, <<>>)
    /\ thread[0] = "panic_opcode"
    /\ iptr[0] = 2
    /\ trace[0] = EmptyTrace
    /\ computer_halted[0] = <<>>

\* what test_intcode_program of day05.rs expects intcode_program to return
Day05Final(program) ==
    CASE program = <<1, 0, 0, 0, 99>> -> <<2, 0, 0, 0, 99>>
      [] program = <<2, 3, 0, 3, 99>> -> <<2, 3, 0, 6, 99>>
      [] program = <<2, 4, 4, 5, 99, 0>> -> <<2, 4, 4, 5, 99, 9801>>
      [] program = <<1, 1, 1, 4, 99, 5, 6, 0, 99>> -> <<30, 1, 1, 4, 2, 5, 6, 0, 99>>
      [] program = <<1002, 4, 3, 4, 33>> -> <<1002, 4, 3, 4, 99>>

\* C29: every pass executes the word that memory holds at the instruction
\* pointer at that moment, whatever the program vector held there: a pass
\* halts only on a current word 99, panics as unrecognized only on a current
\* word that is no opcode, emits only on a 4, blocks for input only on a 3,
\* and stores only on a 1, 2, 7 or 8.  So 1002,4,3,4,33 stores 99 at address
\* 4 and halts there with memory 1002,4,3,4,99, and each program of
\* test_intcode_program halts with the memory the test expects.
C29_FetchReadsCurrentMemory ==
    /\ [](\A i \in ICs :
            /\ thread[i] \in {"halting", "returned"} => OpcodeAt(i) = 99
            /\ thread[i] = "panic_opcode" => OpcodeAt(i) \notin (1..9) \cup {99}
            /\ thread[i] = "receiving" => OpcodeAt(i) = 3
            /\ drv.program \in Day05Programs =>
                  /\ thread[i] \notin PanicKinds
                  /\ thread[i] \in {"halting", "returned"} =>
                         memory[i] = LoadProgram(Day05Final(drv.program))
                  /\ drv.passes = MaxPasses => thread[i] # "running"
            /\ drv.program = <<1002, 4, 3, 4, 33>> =>
                  /\ drv.passes >= 1 =>
                         (iptr[i] = 4 /\ memory[i] = LoadProgram(<<1002, 4, 3, 4, 99>>))
                  /\ drv.passes = 2 => thread[i] \in {"halting", "returned"})
    /\ [][\A i \in ICs :
            Pass(i) =>
                /\ thread'[i] = "halting" => OpcodeAt(i) = 99
                /\ trace'[i].emitted # trace[i].emitted => OpcodeAt(i) = 4
                /\ memory'[i] # memory[i] => OpcodeAt(i) \in {1, 2, 7, 8}
                /\ rbase'[i] # rbase[i] => OpcodeAt(i) = 9
       ]_vars

\* the 33 at address 4 became 99 and the engine halted on it
C29_Witness ==
    /\ drv.program = <<1002, 4, 3, 4, 33>>
    /\ thread[0] = "returned"
    /\ iptr[0] = 4
    /\ memory[0][4] = 99
    /\ drv.passes = 2

-----------------------------------------------------------------------------
(* Properties of the halt, under Spec.                                     *)

\* C30: once the engine of an instance has executed opcode 99 (its halt
\* notification is sent), the thread only returns: its memory, instruction
\* pointer and relative base never change again, it takes no value from its
\* input queue, whatever the driver still sends, and it emits no output and
\* sends no notification.
C30_HaltedTerminal ==
    /\ [](\A i \in ICs :
            trace[i].halts > 0 <=> thread[i] \in {"halting", "returned"})
    /\ [][\A i \in ICs :
            trace[i].halts > 0 =>
                /\ thread'[i] \in {"halting", "returned"}
                /\ memory'[i] = memory[i]
                /\ iptr'[i] = iptr[i]
                /\ rbase'[i] = rbase[i]
                /\ trace'[i].consumed = trace[i].consumed
                /\ trace'[i].stored = trace[i].stored
                /\ IsPrefix(computer_input[i], computer_input'[i])
                /\ trace'[i].emitted = trace[i].emitted
                /\ trace'[i].waits = trace[i].waits
                /\ trace'[i].halts = trace[i].halts
                /\ Len(computer_output'[i]) <= Len(computer_output[i])
                /\ Len(computer_halted'[i]) <= Len(computer_halted[i])
                /\ Len(wait_output'[i]) <= Len(wait_output[i])
       ]_vars

\* a value sent before the halt is still queued after the thread returned,
\* and a later send failed
C30_Witness ==
    /\ thread[0] = "returned"
    /\ computer_input[0] = <<5>>
    /\ trace[0].consumed = <<>>
    /\ call.op = "send"
    /\ ~call.ok
    /\ trace[0].emitted = <<5, 6>>

-----------------------------------------------------------------------------
(* BlockedSpec: the two instances of IsolationSpec under a driver that     *)
(* gives each instance one input value, when it likes or never, as the     *)
(* tests and mains that call ic.send(input) once do.  Each engine is on a  *)
(* thread of its own that the operating system schedules: an engine that   *)
(* can take a step eventually takes it, whatever the other engine and the  *)
(* driver do.                                                              *)

BlockedSend(i, v) ==
    /\ trace[i].sent = <<>>
    /\ DrvSend(i, v)

BlockedNext ==
    \/ \E i \in ICs : EngineStep(i)
    \/ \E i \in ICs : EngineReceive(i)
    \/ \E i \in ICs : EngineReturn(i)
    \/ \E i \in ICs, v \in InputValues : BlockedSend(i, v)

BlockedSpec ==
    /\ IsolationInit
    /\ [][BlockedNext]_vars
    /\ \A i \in {0, 1} : WF_vars(Engine(i))

\* engine i is inside computer_input.recv() and nothing is queued
Blocked(i) == thread[i] = "receiving" /\ computer_input[i] = <<>>

\* C31: while an engine is inside the receive of opcode 3 with an empty
\* input queue its memory, instruction pointer and relative base stay as
\* they are and it emits nothing; a receive that finds a value queued
\* eventually returns, and when it returns the value at the head of the queue
\* is stored at the address the operand names (a Position or Relative
\* operand naming no negative address) and the instruction pointer is 2
\* further; and an engine of another instance that is in its loop goes on
\* to its own receive or end while this one is blocked.
C31_BlockingInput ==
    /\ [][\A i \in ICs :
            /\ Blocked(i) =>
                /\ memory'[i] = memory[i]
                /\ iptr'[i] = iptr[i]
                /\ rbase'[i] = rbase[i]
                /\ thread'[i] = "receiving"
                /\ trace'[i].emitted = trace[i].emitted
                /\ computer_output'[i] = computer_output[i]
                /\ trace'[i].consumed = trace[i].consumed
            /\ (Received(i) /\ DigitAt(i, 1) # 1 /\ AddressAt(i, 1) >= 0) =>
                /\ computer_input[i] # <<>>
                /\ memory'[i] = Stored(memory[i], AddressAt(i, 1),
                                       Head(computer_input[i]))
                /\ iptr'[i] = iptr[i] + 2
                /\ rbase'[i] = rbase[i]
                /\ thread'[i] = "running"
                /\ trace'[i].emitted = trace[i].emitted
       ]_vars
    /\ \A i \in {0, 1} :
          (thread[i] = "receiving" /\ computer_input[i] # <<>>)
          ~> (thread[i] # "receiving")
    /\ \A i \in {0, 1} :
          (Blocked(i) /\ thread[1 - i] = "running") ~> (thread[1 - i] # "running")

\* instance 0 blocked on its first input until 6 was sent, then stored 6 at
\* address 9 and went on to 2, while instance 1 ran into its abort
C31_Witness ==
    /\ trace[0].sent = <<6>>
    /\ trace[0].stored = <<6>>
    /\ trace[0].waits = 1
    /\ thread[0] = "running"
    /\ iptr[0] = 2
    /\ Cell(memory[0], 9) = 6
    /\ thread[1] = "panic_opcode"
    /\ trace[1].emitted = <<5>>

-----------------------------------------------------------------------------
(* Properties of the program load, under InstrSpec.                        *)

\* C32: before the first pass through the loop the memory of the instance
\* holds program[a] at every address a of 0..N-1 for the N words of the
\* program it was spawned on, exactly these addresses are materialized,
\* those holding 0 among them, and the instruction pointer and the relative
\* base are 0.
C32_ProgramLoad ==
    \A i \in ICs :
        drv.passes = 0 =>
            /\ DOMAIN memory[i] = 0..(Len(drv.program) - 1)
            /\ \A a \in 0..(Len(drv.program) - 1) : memory[i][a] = drv.program[a + 1]
            /\ iptr[i] = 0
            /\ rbase[i] = 0
            /\ thread[i] = "running"

\* a program of nine words with 0 at addresses 3, 4 and 5, loaded
C32_Witness ==
    /\ drv.passes = 0
    /\ drv.program = InstrImage(2, 1, <<0, 0, 0>>)
    /\ DOMAIN memory[0] = 0..7
    /\ memory[0][3] = 0
    /\ memory[0][0] = 109
    /\ memory[0][7] = 5

-----------------------------------------------------------------------------
(* CollectSpec: run_intcode_computer_and_print.  The driver spawns the     *)
(* instance, sends it one input value, and collects the outputs in a loop  *)
(* of try_recv() and halted(); when halted() is true it drains the output  *)
(* port with try_recv() until None and leaves the loop.  test_day_5 runs   *)
(* the same loop.                                                          *)

\* iterations of the polling loop
MaxPolls == 4

CollectPrograms == {
    <<3, 9, 4, 9, 104, 7, 4, 9, 99, 0>>,   \* in, out, out 7, out, halt
    <<104, 5, 104, 6, 99>>,                \* two outputs, halt
    <<99>>,                                \* halt
    <<98>>,                                \* unrecognized opcode
    <<3, 5, 4, 5, 98, 0>>,                 \* in, out, unrecognized opcode
    <<104, 5, 1, -1, 0, 0, 99>>,           \* out, negative address
    <<103, 0, 99>>                         \* input into an Immediate target
}

CollectInit ==
    /\ \E p \in CollectPrograms : Spawned({0}, [i \in {0} |-> p])
    /\ drv = [pc |-> "send", ic |-> 0, outputs |-> <<>>, polls |-> 0]

\* ic.send(input);
CollectSend(v) ==
    /\ drv.pc = "send"
    /\ send(0, v)
    /\ drv' = [drv EXCEPT !.pc = OrPanic("try_recv")]

\* match ic.try_recv() { Some(v) => outputs.push(v), None => {} }
CollectTryRecv ==
    /\ drv.pc = "try_recv"
    /\ drv.polls < MaxPolls
    /\ try_recv(0)
    /\ drv' = [drv EXCEPT !.pc = "halted",
                          !.polls = @ + 1,
                          !.outputs = IF call'.ok THEN Append(@, call'.v) ELSE @]

\* a loop that breaks on halted() without draining
CollectHaltedNoDrain ==
    /\ drv.pc = "halted"
    /\ halted(0)
    /\ drv' = [drv EXCEPT !.pc = IF call'.ok THEN "print" ELSE "try_recv"]

\* if ic.halted() { ... }
CollectHalted ==
    /\ drv.pc = "halted"
    /\ halted(0)
    /\ drv' = [drv EXCEPT !.pc = IF call'.ok THEN "drain" ELSE "try_recv"]

\* the drain loop: let opt = ic.try_recv(); Some(v) => push, None => break;
\* and the break out of the polling loop that follows it
CollectDrain ==
    /\ drv.pc = "drain"
    /\ try_recv(0)
    /\ drv' = [drv EXCEPT !.pc = IF call'.ok THEN "drain" ELSE "print",
                          !.outputs = IF call'.ok THEN Append(@, call'.v) ELSE @]

\* the outputs are printed and the function returns: ic goes out of scope
CollectReturn ==
    /\ drv.pc = "print"
    /\ drv' = [drv EXCEPT !.pc = "done"]
    /\ handle' = [handle EXCEPT ![0] = FALSE]
    /\ UNCHANGED <<engine_vars, computer_input, computer_output, computer_halted,
                   wait_output, WaitingOnInput, call, trace>>

CollectNext ==
    \/ \E i \in ICs : EngineStep(i)
    \/ \E i \in ICs : EngineReceive(i)
    \/ \E i \in ICs : EngineReturn(i)
    \/ \E v \in InputValues : CollectSend(v)
    \/ CollectTryRecv
    \/ CollectHalted
    \/ CollectDrain
    \/ CollectReturn

CollectSpec == CollectInit /\ [][CollectNext]_vars

-----------------------------------------------------------------------------
(* Properties of the collector, under CollectSpec.                         *)

\* C33: every value opcode 4 emitted is on the output port or was taken from
\* it by the driver, in the order of emission; once the halt notification is
\* sent the engine emits nothing more; the driver's vector holds what it
\* took; and when the driver has left its loop (halted() was true and the
\* drain met None) the vector is the complete output sequence of the run,
\* each value once and in order.
C33_HaltAfterAllOutput ==
    /\ [](/\ handle[0] => trace[0].emitted = trace[0].received \o computer_output[0]
          /\ drv.outputs = trace[0].received
          /\ drv.pc \in {"drain", "print", "done"} => trace[0].halts = 1
          /\ drv.pc \in {"print", "done"} =>
                /\ drv.outputs = trace[0].emitted
                /\ thread[0] \in {"halting", "returned"})
    /\ [][trace[0].halts > 0 => trace'[0].emitted = trace[0].emitted]_vars

\* 6 taken by the first poll, 7 by the second, the last 6 by the drain
C33_Witness ==
    /\ drv.pc = "done"
    /\ drv.outputs = <<6, 7, 6>>
    /\ drv.polls = 3
    /\ trace[0].emitted = <<6, 7, 6>>

\* the aborts of a negative address, an Immediate write target and an
\* unrecognized opcode
AbortKinds == {"panic_index", "panic_set_value", "panic_opcode"}

\* C34 as stated: once the engine has aborted on a negative address, an
\* unrecognized opcode or an Immediate write target, no call to halted()
\* returns true and the driver of run_intcode_computer_and_print never
\* terminates.
C34_AbortedDriverNeverTerminates ==
    thread[0] \in AbortKinds =>
        /\ trace[0].halted_true = 0
        /\ drv.pc \notin {"print", "done", "panicked"}

\* C34: once the engine has aborted on a negative address, an unrecognized
\* opcode or an Immediate write target it stays aborted, no halt
\* notification was or will be sent and no call to halted() returns true;
\* the driver of run_intcode_computer_and_print never leaves its polling
\* loop once it is in it, and it ends only by the panic of its initial send,
\* when the engine aborted before that send.
C34_AbortedNeverHalted ==
    /\ [](thread[0] \in AbortKinds =>
            /\ trace[0].halts = 0
            /\ computer_halted[0] = <<>>
            /\ trace[0].halted_true = 0
            /\ call.op = "halted" => ~call.ok
            /\ drv.pc \in {"send", "try_recv", "halted", "panicked"}
            /\ drv.pc = "panicked" =>
                  /\ call.op = "send"
                  /\ ~call.ok
                  /\ trace[0].sent = <<>>
                  /\ trace[0].consumed = <<>>
                  /\ drv.polls = 0)
    /\ [][thread[0] \in AbortKinds =>
            /\ thread'[0] = thread[0]
            /\ drv.pc \in {"try_recv", "halted"} => drv'.pc \in {"try_recv", "halted"}
            /\ drv.pc = "panicked" => drv'.pc = "panicked"
       ]_vars

\* the engine took 6, emitted it and aborted on opcode 98; the driver has
\* polled three times and the last halted() was false
C34_Witness ==
    /\ thread[0] = "panic_opcode"
    /\ drv.pc = "try_recv"
    /\ drv.polls = 3
    /\ call.op = "halted"
    /\ ~call.ok
    /\ drv.outputs = <<6>>
    /\ trace[0].consumed = <<6>>

-----------------------------------------------------------------------------
(* Properties of waiting_on_input, under Spec.                             *)

\* C35: whenever a call to waiting_on_input() returns true, the engine of
\* the instance is at an opcode 3, inside the receive, and has not taken the
\* value of that instruction.
C35_WaitingOnInputAccurate ==
    [][\A i \in ICs :
          (Returns("waiting_on_input", i) /\ call'.ok) =>
              /\ thread[i] = "receiving"
              /\ Len(trace[i].consumed) < trace[i].waits
      ]_vars

-----------------------------------------------------------------------------
(* Properties of the send of the interactive loop, under InteractiveSpec.  *)

\* C36: every send of the loop, which follows a halted() that returned
\* false, is issued while the engine thread of the instance still owns its
\* input endpoint, and succeeds.
C36_SendFindsEngineAlive ==
    [][Returns("send", 0) =>
          /\ call.op = "halted"
          /\ ~call.ok
          /\ thread[0] \notin {"returned"} \cup PanicKinds
          /\ call'.ok
      ]_vars

-----------------------------------------------------------------------------
(* Properties of the engine after the driver dropped its handle, under     *)
(* Spec.  Once the handle is dropped the driver calls nothing more, so     *)
(* every step is a step of the engine.                                     *)

\* C37: with the driver's handle dropped, a pass that executes opcode 4
\* (its operand naming no negative address) emits the value and leaves the
\* engine in its loop 2 cells further, a pass that executes opcode 3 notifies
\* and goes on to the receive, a pass that executes opcode 99 notifies and
\* goes on to return, and a receive that finds a value queued takes it; the
\* values sent reach nobody.  With or without handle, the thread is ended by
\* a channel only in the receive of opcode 3, with nothing queued and the
\* handle dropped.
C37_EngineIgnoresDroppedHandle ==
    [][\A i \in ICs :
          /\ (~handle[i] /\ thread[i] = "running" /\ OpcodeAt(i) = 4
                /\ ReadOk(i, 1)) =>
                /\ thread'[i] = "running"
                /\ iptr'[i] = iptr[i] + 2
                /\ trace'[i].emitted = Append(trace[i].emitted, ValueAt(i, 1))
          /\ (~handle[i] /\ thread[i] = "running" /\ OpcodeAt(i) = 3) =>
                /\ thread'[i] = "receiving"
                /\ trace'[i].waits = trace[i].waits + 1
          /\ (~handle[i] /\ thread[i] = "running" /\ OpcodeAt(i) = 99) =>
                /\ thread'[i] = "halting"
                /\ trace'[i].halts = trace[i].halts + 1
          /\ (~handle[i] /\ thread[i] = "receiving" /\ computer_input[i] # <<>>) =>
                /\ thread'[i] # "panic_recv"
                /\ trace'[i].consumed =
                       Append(trace[i].consumed, Head(computer_input[i]))
          /\ ~handle[i] =>
                /\ computer_output'[i] = computer_output[i]
                /\ wait_output'[i] = wait_output[i]
                /\ computer_halted'[i] = computer_halted[i]
          /\ (thread'[i] = "panic_recv" /\ thread[i] # "panic_recv") =>
                /\ thread[i] = "receiving"
                /\ computer_input[i] = <<>>
                /\ ~handle[i]
      ]_vars

\* 5 was sent and the handle dropped before the engine started: it notified,
\* took 5, emitted it, notified again and ended in the second receive
C37_Witness ==
    /\ ~handle[0]
    /\ thread[0] = "panic_recv"
    /\ trace[0].sent = <<5>>
    /\ trace[0].consumed = <<5>>
    /\ trace[0].emitted = <<5>>
    /\ trace[0].waits = 2
    /\ computer_output[0] = <<>>
    /\ wait_output[0] = <<>>

-----------------------------------------------------------------------------
(* DigitSpec: the passes of InstrSpec over instruction words that carry a  *)
(* mode digit other than 0, 1 and 2.                                       *)

DigitModeDigits == {0, 1, 2, 3, 9}

\* the words of opcode op with at least one mode digit above 2
DigitWords(op) ==
    {op + 100 * d1 + 1000 * d2 + 10000 * d3 :
        <<d1, d2, d3>> \in
            {t \in DigitModeDigits \X DigitModeDigits \X DigitModeDigits :
                t[1] > 2 \/ t[2] > 2 \/ t[3] > 2}}

DigitPrograms ==
    {InstrImage(2, w, <<p[1], p[2], p[3]>>) :
        <<w, p>> \in (DigitWords(1) \cup DigitWords(8))
                        \X (InstrCells \X InstrCells \X InstrCells)}
    \cup {InstrImage(2, w, <<p[1], p[2]>>) :
        <<w, p>> \in DigitWords(5) \X (InstrCells \X InstrCells)}
    \cup {InstrImage(2, w, <<p1>>) :
        <<w, p1>> \in (DigitWords(3) \cup DigitWords(4) \cup DigitWords(9))
                         \X InstrCells}

DigitInit ==
    \E p \in DigitPrograms :
        /\ Spawned({0}, [i \in {0} |-> p])
        /\ drv = [pc |-> IF RustRem(p[3], 100) = 3 THEN "start" ELSE "done",
                  ic |-> 0, program |-> p, passes |-> 0]

DigitSpec == DigitInit /\ [][InstrNext]_vars

\* some mode digit of the three operands of w is above 2
HighDigit(w) == \E k \in 1..3 : DigitOf(w, k) > 2

\* w with every such digit replaced by 0
ZeroHigh(w) ==
    w - 100 * ((IF DigitOf(w, 1) > 2 THEN DigitOf(w, 1) ELSE 0)
               + 10 * (IF DigitOf(w, 2) > 2 THEN DigitOf(w, 2) ELSE 0)
               + 100 * (IF DigitOf(w, 3) > 2 THEN DigitOf(w, 3) ELSE 0))

\* the modes decoded from w with its digits above 2 replaced by 0
ZeroHighModes(w) == get_parameter_modes_from_opcode(RustDiv(ZeroHigh(w), 100)).modes

\* the arm of opcode `opcode` run on modes pm
ArmOn(opcode, mem, ip, rb, pm) ==
    IF opcode \in {1, 2, 7, 8} THEN ExecArith(opcode, mem, ip, rb, pm)
    ELSE IF opcode = 3 THEN Outcome("input", mem, ip, rb, <<>>)
    ELSE IF opcode = 4 THEN ExecOutput(mem, ip, rb, pm)
    ELSE IF opcode \in {5, 6} THEN ExecJump(opcode, mem, ip, rb, pm)
    ELSE ExecRbase(mem, ip, rb, pm)

\* C38: a pass over a word with a mode digit of 3..9 on some operand does
\* not end the thread in the decoder, and it is the pass of the opcode's arm
\* on the modes of the same word with those digits replaced by 0: the same
\* memory, instruction pointer, relative base, output and thread state; and
\* the store of opcode 3 with such a digit writes at the address its operand
\* holds, as with digit 0.
C38_HighDigitIsPosition ==
    [][\A i \in ICs :
          /\ (Pass(i) /\ HighDigit(WordAt(i))) =>
                LET r == ArmOn(OpcodeAt(i), memory[i], iptr[i], rbase[i],
                               ZeroHighModes(WordAt(i)))
                IN  /\ thread'[i] = NextThread(r.kind)
                    /\ thread'[i] # "panic_modes"
                    /\ memory'[i] = r.memory
                    /\ iptr'[i] = r.iptr
                    /\ rbase'[i] = r.rbase
                    /\ trace'[i].emitted = trace[i].emitted \o r.output
                    /\ \A k \in 1..3 :
                          DigitAt(i, k) > 2 =>
                              get_parameter_modes_from_opcode(
                                  RustDiv(WordAt(i), 100)).modes[k - 1]
                                  = "PositionMode"
          /\ (Received(i) /\ DigitAt(i, 1) > 2 /\ RawAt(i, 1) >= 0) =>
                /\ memory'[i] = Stored(memory[i], RawAt(i, 1), Head(computer_input[i]))
                /\ iptr'[i] = iptr[i] + 2
                /\ thread'[i] = "running"
      ]_vars

\* 30301,3,3,7: both reads through address 3, which holds 3, and 3 + 3
\* stored at address 7, the digits 3 taken as Position
C38_Witness ==
    /\ drv.program = InstrImage(2, 30301, <<3, 3, 7>>)
    /\ drv.passes = 2
    /\ thread[0] = "running"
    /\ iptr[0] = 6
    /\ memory[0][7] = 6

-----------------------------------------------------------------------------
(* Properties of the decoder on long words, under DecodeSpec.              *)

\* C39: for every word w >= 0 in the fetched cell, whatever the number of
\* digits of w / 100, the decode returns a mode for each of the three
\* parameters and the thread stays in its loop.
C39_DecoderTotal ==
    (call.op = "decode" /\ memory[0][0] >= 0) =>
        /\ call.ok
        /\ thread[0] = "running"
        /\ \A k \in 0..2 :
              call.v.param_modes[k] \in {"PositionMode", "ImmediateMode", "RelativeMode"}
=============================================================================
